---- MODULE Spec2Model ----
(***************************************************************************)
(* Access-control and collaboration-state core of the Real-Time-Workspace  *)
(* backend (FastAPI + SQLAlchemy AsyncSession on PostgreSQL).              *)
(*                                                                         *)
(* The persisted relations are the state.  Every request runs in a session *)
(* of its own (app/database.py get_db), so a request is a process whose    *)
(* steps are its database statements: a SELECT copies rows into the        *)
(* session (the snapshot kept in loc), the Python code then works on that  *)
(* copy, and commit() writes the changed columns back by primary key.  The *)
(* engine is created without an isolation level, so PostgreSQL runs every  *)
(* statement READ COMMITTED: nothing is locked between a request's SELECT  *)
(* and its commit, and the steps of concurrent requests interleave.        *)
(* Local computation between two statements is taken with the statement    *)
(* that precedes it.                                                       *)
(*                                                                         *)
(* The constraints the models declare (primary keys, the unique            *)
(* constraints and the partial unique index) are enforced at commit: a     *)
(* violating commit raises, the transaction is rolled back and the request *)
(* ends in an unhandled error.  The invitations.token_hash column, which   *)
(* no code of the repository writes, is left out of the model.             *)
(***************************************************************************)
EXTENDS Integers, Sequences, FiniteSets, TLC

\* ---------------------------------------------------------------- domains

Users == {"u1", "u2", "u3"}
DocIds == {"d1"}
Procs == {"p1", "p2"}
Blobs == {"abc", "xyz"}
Secrets == {"s1", "s2"}
Messages == {"hi"}
\* the accounts that act in the specification of the version-gated write
WriteUsers == {"u1"}

\* bounds of the model
MaxVersion == 3
MaxWriteTime == 1
MaxPermRows == 3
MaxInvs == 2
MaxShareTime == 7
MaxTokTime == 31

\* program constants
INVITATION_EXPIRE_DAYS == 7
REFRESH_TOKEN_EXPIRE_DAYS == 30

\* DocumentRole and InvitationStatus
OWNER == "OWNER"
EDITOR == "EDITOR"
VIEWER == "VIEWER"
DocumentRole == {OWNER, EDITOR, VIEWER}
PENDING == "PENDING"
ACCEPTED == "ACCEPTED"
DECLINED == "DECLINED"
EXPIRED == "EXPIRED"
InvitationStatus == {PENDING, ACCEPTED, DECLINED, EXPIRED}

\* SQL NULL in a text column, in a timestamp column and in a uuid column
NullBlob == "NULL"
NullTime == 0 - 1
NullUser == "NULL"

\* the e-mail address of the account u (users.email is unique)
Email(u) == <<u, "example.com">>
Emails == {Email(u) : u \in Users}

VARIABLES users, docs, perms, permSeq, invs, tokens, now, pc, req, loc, ret

vars == <<users, docs, perms, permSeq, invs, tokens, now, pc, req, loc, ret>>
db == <<users, docs, perms, permSeq, invs, tokens>>

\* ---------------------------------------------------------------- helpers

NoReq == [op |-> "none"]
NoLoc == [op |-> "none"]
NoRet == [op |-> "none"]

\* The value a column holds after the flush of an attribute that was loaded
\* as `loaded` and set to `new`: the unit of work emits only the columns
\* whose value changed, so an attribute set to the value it was loaded with
\* leaves the stored column as it is.
Flush(stored, loaded, new) == IF new = loaded THEN stored ELSE new

Idle(p) == pc[p] = "idle"

\* The first statement of a request of the idle worker p, with arguments r:
\* either the request goes on to the statement `label` with the session
\* snapshot l, or it ends at once with the result `result`.  A worker keeps
\* the arguments while it handles the request and the result until it takes
\* its next request.
StartGoto(p, r, label, l) ==
    /\ Idle(p)
    /\ pc' = [pc EXCEPT ![p] = label]
    /\ req' = [req EXCEPT ![p] = r]
    /\ loc' = [loc EXCEPT ![p] = l]
    /\ ret' = [ret EXCEPT ![p] = NoRet]

StartFinish(p, result) ==
    /\ Idle(p)
    /\ ret' = [ret EXCEPT ![p] = result]
    /\ UNCHANGED <<pc, req, loc>>

\* a request moves on to its next statement with a new session snapshot
Goto(p, label, l) ==
    /\ pc' = [pc EXCEPT ![p] = label]
    /\ loc' = [loc EXCEPT ![p] = l]
    /\ UNCHANGED <<req, ret>>

\* a request ends with the result `result`
Finish(p, result) ==
    /\ pc' = [pc EXCEPT ![p] = "idle"]
    /\ loc' = [loc EXCEPT ![p] = NoLoc]
    /\ ret' = [ret EXCEPT ![p] = result]
    /\ req' = [req EXCEPT ![p] = NoReq]

Init ==
    /\ users = << >>
    /\ docs = << >>
    /\ perms = {}
    /\ permSeq = 0
    /\ invs = << >>
    /\ tokens = << >>
    /\ now = 0
    /\ pc = [p \in Procs |-> "idle"]
    /\ req = [p \in Procs |-> NoReq]
    /\ loc = [p \in Procs |-> NoLoc]
    /\ ret = [p \in Procs |-> NoRet]

\* ------------------------------------------------------------- accounts

\* get_or_create_user, the branch that creates the account
SignUp(u) ==
    /\ u \notin DOMAIN users
    /\ users' = users @@ (u :> [email |-> Email(u), is_active |-> TRUE])
    /\ UNCHANGED <<docs, perms, permSeq, invs, tokens, now, pc, req, loc, ret>>

\* ------------------------------------------------------------- documents

\* DocumentService.create_document: the document and its OWNER permission
\* are inserted in one transaction.
CreateDocument(u, d, public) ==
    /\ u \in DOMAIN users
    /\ d \notin DOMAIN docs
    /\ permSeq < MaxPermRows
    /\ docs' = docs @@ (d :> [owner_id |-> u, crdt_state |-> NullBlob,
                              crdt_version |-> 0, is_archived |-> FALSE,
                              is_public |-> public,
                              last_edited_at |-> NullTime])
    /\ permSeq' = permSeq + 1
    /\ perms' = perms \cup {[id |-> permSeq + 1, document_id |-> d, user_id |-> u,
                            role |-> OWNER, granted_by_id |-> u]}
    /\ UNCHANGED <<users, invs, tokens, now, pc, req, loc, ret>>

\* DocumentService.get_document_by_id with include_archived = False
GetDocumentById(d) ==
    IF d \in DOMAIN docs /\ ~docs[d].is_archived
    THEN [found |-> TRUE, row |-> docs[d]]
    ELSE [found |-> FALSE]

\* ------------------------------------------------- update_crdt_state

\* a version check that refuses only a caller ahead of the stored version
VersionConflictAhead(r, document) ==
    r.has_expected /\ document.crdt_version < r.expected_version

\* the version check of update_crdt_state on the document it has read
VersionConflict(r, document) ==
    r.has_expected /\ document.crdt_version # r.expected_version

\* lines 372-378: the SELECT and the checks on its result
WriteRead(p, d, s, has, ev) ==
    /\ d \in DOMAIN docs
    /\ docs[d].crdt_version < MaxVersion
    /\ LET r == [op |-> "write", doc |-> d, crdt_state |-> s,
                 has_expected |-> has, expected_version |-> ev]
           got == GetDocumentById(d) IN
       IF ~got.found
       THEN StartFinish(p, [op |-> "write", value |-> "None", line |-> 375, req |-> r])
       ELSE IF VersionConflict(r, got.row)
       THEN StartFinish(p, [op |-> "write", value |-> "None", line |-> 378, req |-> r])
       ELSE StartGoto(p, r, "write_commit", [op |-> "write", document |-> got.row])
    /\ UNCHANGED <<db, now>>

\* the row update_crdt_state's commit leaves: the session's copy of the
\* document with the new state, its version plus one and the time
WriteRow(stored, document, r) ==
    [stored EXCEPT !.crdt_state = Flush(stored.crdt_state, document.crdt_state, r.crdt_state),
                   !.crdt_version = document.crdt_version + 1,
                   !.last_edited_at = Flush(stored.last_edited_at, document.last_edited_at, now)]

\* lines 380-386: UPDATE documents SET ... WHERE id = :id, then the refresh
WriteCommit(p) ==
    /\ pc[p] = "write_commit"
    /\ LET d == req[p].doc IN
       IF d \notin DOMAIN docs
       THEN /\ Finish(p, [op |-> "write", value |-> "error", line |-> 384, req |-> req[p]])
            /\ UNCHANGED docs
       ELSE /\ docs' = [docs EXCEPT ![d] = WriteRow(docs[d], loc[p].document, req[p])]
            /\ Finish(p, [op |-> "write", value |-> "document", line |-> 386,
                          req |-> req[p], document |-> docs'[d]])
    /\ UNCHANGED <<users, perms, permSeq, invs, tokens, now>>

WriteTick ==
    /\ now < MaxWriteTime
    /\ now' = now + 1
    /\ UNCHANGED <<db, pc, req, loc, ret>>

WriteNext ==
    \/ \E u \in WriteUsers : SignUp(u)
    \/ \E u \in WriteUsers, d \in DocIds : CreateDocument(u, d, FALSE)
    \/ \E p \in Procs, d \in DocIds, s \in Blobs, has \in BOOLEAN, ev \in 0..MaxVersion :
          /\ (~has => ev = 0)
          /\ WriteRead(p, d, s, has, ev)
    \/ \E p \in Procs : WriteCommit(p)
    \/ WriteTick

SpecWrite == Init /\ [][WriteNext]_vars

\* the worker p holds the result of a write that returned the document
WriteSucceeded(p) ==
    IF ret[p].op = "write" THEN ret[p].value = "document" ELSE FALSE

\* the worker p holds the result of a write refused at the version check
WriteConflicted(p) ==
    IF ret[p].op = "write" THEN ret[p].line = 378 ELSE FALSE

\* C1: of the writes of one document that name the same expected version,
\* at most one succeeds: no two workers ever hold the returned document for
\* the same document and the same expected version (a stored version is
\* never reached twice, so two such results are two winners of one
\* compare-and-set).
C1_OneWinnerPerVersion ==
    \A p \in Procs : \A q \in Procs \ {p} :
        (WriteSucceeded(p) /\ WriteSucceeded(q))
            => ~(/\ ret[p].req.doc = ret[q].req.doc
                 /\ ret[p].req.has_expected
                 /\ ret[q].req.has_expected
                 /\ ret[p].req.expected_version = ret[q].req.expected_version)

\* the step is the first statement of a write request of the worker p
WriteStarts(p) ==
    /\ Idle(p)
    /\ \/ pc'[p] = "write_commit"
       \/ (ret'[p] # ret[p] /\ ret'[p].op = "write")

\* the arguments of the write request whose first statement the step is
WriteStarted(p) == IF pc'[p] = "write_commit" THEN req'[p] ELSE ret'[p].req

\* C2: a write that provides an expected version different from the stored
\* version of the document returns None at the version check and leaves the
\* documents table (state, version, last-edited time) as it is; a write
\* whose expected version equals the stored version passes the check, and
\* its commit on the row it read stores its state and the version plus one.
C2_StaleWriteRefused ==
    [][\A p \in Procs :
         /\ WriteStarts(p) =>
               LET r == WriteStarted(p)
                   stale == r.has_expected /\ docs[r.doc].crdt_version # r.expected_version IN
               /\ stale => /\ pc'[p] = "idle"
                           /\ ret'[p].value = "None"
                           /\ ret'[p].line = 378
                           /\ docs' = docs
               /\ ~stale => pc'[p] = "write_commit"
         /\ (pc[p] = "write_commit" /\ pc'[p] = "idle" /\ loc[p].document = docs[req[p].doc]) =>
               /\ ret'[p].value = "document"
               /\ docs'[req[p].doc].crdt_version = docs[req[p].doc].crdt_version + 1
               /\ docs'[req[p].doc].crdt_state = req[p].crdt_state
               /\ docs'[req[p].doc].last_edited_at = now
      ]_vars

\* C2 witness: the scenario has run: the document is at version 2 holding
\* "xyz", one worker holds the conflict of the stale write(expected 0) and
\* the other the document returned by write("xyz", expected 1)
C2_ScenarioRan ==
    \E p \in Procs : \E q \in Procs \ {p} : \E d \in DOMAIN docs :
        /\ WriteConflicted(p)
        /\ ret[p].req = [op |-> "write", doc |-> d, crdt_state |-> "xyz",
                         has_expected |-> TRUE, expected_version |-> 0]
        /\ WriteSucceeded(q)
        /\ ret[q].req = [op |-> "write", doc |-> d, crdt_state |-> "xyz",
                         has_expected |-> TRUE, expected_version |-> 1]
        /\ docs[d].crdt_version = 2
        /\ docs[d].crdt_state = "xyz"

\* DocumentService.get_crdt_state: the state and the version of the stored
\* document, None for a document that is missing or archived
get_crdt_state(d) ==
    LET document == GetDocumentById(d) IN
    IF document.found
    THEN [found |-> TRUE, crdt_state |-> document.row.crdt_state,
          crdt_version |-> document.row.crdt_version]
    ELSE [found |-> FALSE]

\* C24: every update_crdt_state that returns the document has stored the
\* state it was called with and has raised the stored version by exactly 1,
\* and a get_crdt_state that follows it returns that state with the new
\* version.
C24_WriteStoresAndIncrements ==
    [][\A p \in Procs : \A d \in DocIds : \A s \in Blobs :
         (/\ pc[p] = "write_commit"
          /\ pc'[p] = "idle"
          /\ ret'[p].value = "document"
          /\ ret'[p].req.doc = d
          /\ ret'[p].req.crdt_state = s) =>
             /\ docs'[d].crdt_state = s
             /\ docs'[d].crdt_version = docs[d].crdt_version + 1
             /\ get_crdt_state(d)' = [found |-> TRUE, crdt_state |-> s,
                                      crdt_version |-> docs[d].crdt_version + 1]
      ]_vars

\* C25: an update_crdt_state called without an expected version on a
\* document that get_document_by_id finds is never refused, whatever the
\* stored version is: it goes on to its commit, which returns the document,
\* stores the state it was called with and raises the stored version by
\* exactly 1.
C25_UnconditionalWrite ==
    [][\A p \in Procs :
         /\ (WriteStarts(p) /\ ~WriteStarted(p).has_expected) =>
               (GetDocumentById(WriteStarted(p).doc).found => pc'[p] = "write_commit")
         /\ (/\ pc[p] = "write_commit"
             /\ pc'[p] = "idle"
             /\ ~req[p].has_expected) =>
               /\ ret'[p].value = "document"
               /\ docs'[req[p].doc].crdt_state = req[p].crdt_state
               /\ docs'[req[p].doc].crdt_version = docs[req[p].doc].crdt_version + 1
      ]_vars

\* the number of workers whose write of the document d returns the document
\* in the step
WritesReturned(d) ==
    Cardinality({p \in Procs : /\ pc[p] = "write_commit"
                               /\ pc'[p] = "idle"
                               /\ ret'[p].value = "document"
                               /\ ret'[p].req.doc = d})

\* C38: the version of a document is a non-negative integer, is 0 when the
\* document is created, never decreases, and rises in a step by exactly the
\* number of update_crdt_state calls that return the document in that step,
\* so that it always equals the number of successful writes since creation,
\* whether the writers name an expected version or not and however their
\* statements interleave.
C38_VersionCountsWrites ==
    [][\A d \in DocIds :
         /\ (d \in DOMAIN docs') => docs'[d].crdt_version \in Nat
         /\ (d \notin DOMAIN docs /\ d \in DOMAIN docs') => docs'[d].crdt_version = 0
         /\ (d \in DOMAIN docs) =>
               /\ d \in DOMAIN docs'
               /\ docs'[d].crdt_version >= docs[d].crdt_version
               /\ docs'[d].crdt_version = docs[d].crdt_version + WritesReturned(d)
      ]_vars

\* ----------------------------------------------------------- permissions

\* a role_hierarchy in the opposite order
RoleRankReversed(role) ==
    CASE role = VIEWER -> 3
      [] role = EDITOR -> 2
      [] role = OWNER -> 1
      [] OTHER -> 0

\* role_hierarchy of check_access; a role outside the map ranks 0
RoleRank(role) ==
    CASE role = VIEWER -> 1
      [] role = EDITOR -> 2
      [] role = OWNER -> 3
      [] OTHER -> 0

NothingLoaded == [found |-> FALSE]

\* perms is the document_permissions table, a set of rows with the primary
\* key id; the rows of a (document, user) pair
PermissionRows(d, u) == {x \in perms : x.document_id = d /\ x.user_id = u}

\* a document_permissions table without the unique constraint
PermissionIndexIgnored(d, u) == TRUE

\* uq_document_user_permission, the unique constraint on (document_id, user_id)
PermissionIndexAllows(d, u) == PermissionRows(d, u) = {}

\* DocumentService.get_user_permission run in a session that has already
\* loaded the row `cached`: the SELECT finds the stored row, and the session
\* hands back the object it already holds for that primary key, with the
\* attributes it was loaded with.
GetUserPermission(cached, d, u) ==
    IF PermissionRows(d, u) # {}
    THEN LET row == CHOOSE x \in PermissionRows(d, u) : TRUE IN
         IF cached.found /\ cached.row.id = row.id
         THEN [found |-> TRUE, row |-> cached.row]
         ELSE [found |-> TRUE, row |-> row]
    ELSE [found |-> FALSE]

\* DocumentService.check_access
CheckAccess(d, u, required_role) ==
    LET permission == GetUserPermission(NothingLoaded, d, u) IN
    IF ~permission.found
    THEN LET doc == GetDocumentById(d) IN
         IF doc.found THEN doc.row.is_public /\ required_role = VIEWER ELSE FALSE
    ELSE RoleRank(permission.row.role) >= RoleRank(required_role)

\* the UPDATE or DELETE of a loaded permission finds its row
PermissionStored(d, u, row) ==
    \E x \in perms : x.id = row.id

\* get_current_user: the bearer of a valid access token for an active account
CurrentUser(u) == IF u \in DOMAIN users THEN users[u].is_active ELSE FALSE

\* ---- POST /documents/{document_id}/permissions

\* a router that refuses no role
GrantRejectsNoRole(role) == FALSE

\* the router refuses to grant OWNER
GrantRejectsRole(role) == role = OWNER

\* Depends(require_owner), then the check of the requested role
GrantAuth(p, actor, d, target, role) ==
    /\ CurrentUser(actor)
    /\ LET r == [op |-> "grant", actor |-> actor, doc |-> d, user |-> target,
                 role |-> role] IN
       IF ~CheckAccess(d, actor, OWNER)
       THEN StartFinish(p, [op |-> "grant", status |-> 403])
       ELSE IF GrantRejectsRole(role)
       THEN StartFinish(p, [op |-> "grant", status |-> 400])
       ELSE StartGoto(p, r, "grant_read",
                      [op |-> "grant",
                       actor_perm |-> GetUserPermission(NothingLoaded, d, actor)])
    /\ UNCHANGED <<db, now>>

\* grant_permission, line 296: the SELECT of the existing permission
GrantRead(p) ==
    /\ pc[p] = "grant_read"
    /\ Goto(p, "grant_commit",
            [op |-> "grant",
             existing |-> GetUserPermission(loc[p].actor_perm, req[p].doc, req[p].user)])
    /\ UNCHANGED <<db, now>>

\* the row grant_permission's UPDATE of the existing permission leaves
GrantUpdateRow(stored, existing, r) ==
    [stored EXCEPT !.role = Flush(@, existing.role, r.role),
                   !.granted_by_id = Flush(@, existing.granted_by_id, r.actor)]

\* the role the stored row of the loaded permission holds
StoredRole(row) == (CHOOSE x \in perms : x.id = row.id).role

\* grant_permission, lines 298-315: the UPDATE of the existing row, or the
\* INSERT of a new one
GrantCommit(p) ==
    /\ pc[p] = "grant_commit"
    /\ LET r == req[p]
           existing == loc[p].existing IN
       IF existing.found
       THEN IF PermissionStored(r.doc, r.user, existing.row)
            THEN /\ perms' = {IF x.id = existing.row.id
                                THEN GrantUpdateRow(x, existing.row, r)
                                ELSE x : x \in perms}
                 /\ Finish(p, [op |-> "grant", status |-> 200,
                               role |-> Flush(StoredRole(existing.row), existing.row.role, r.role)])
                 /\ UNCHANGED permSeq
            ELSE /\ Finish(p, [op |-> "grant", status |-> 500])
                 /\ UNCHANGED <<perms, permSeq>>
       ELSE IF \/ ~PermissionIndexAllows(r.doc, r.user)
               \/ r.doc \notin DOMAIN docs
               \/ r.user \notin DOMAIN users
            THEN /\ Finish(p, [op |-> "grant", status |-> 500])
                 /\ UNCHANGED <<perms, permSeq>>
            ELSE /\ permSeq < MaxPermRows
                 /\ permSeq' = permSeq + 1
                 /\ perms' = perms \cup {[id |-> permSeq + 1, document_id |-> r.doc,
                                         user_id |-> r.user, role |-> r.role,
                                         granted_by_id |-> r.actor]}
                 /\ Finish(p, [op |-> "grant", status |-> 200, role |-> r.role])
    /\ UNCHANGED <<users, docs, invs, tokens, now>>

\* ---- DELETE /documents/{document_id}/permissions/{user_id}

\* Depends(require_owner)
RevokeAuth(p, actor, d, target) ==
    /\ CurrentUser(actor)
    /\ LET r == [op |-> "revoke", actor |-> actor, doc |-> d, user |-> target] IN
       IF ~CheckAccess(d, actor, OWNER)
       THEN StartFinish(p, [op |-> "revoke", status |-> 403])
       ELSE StartGoto(p, r, "revoke_read",
                      [op |-> "revoke",
                       actor_perm |-> GetUserPermission(NothingLoaded, d, actor)])
    /\ UNCHANGED <<db, now>>

\* a revoke that spares no role
CannotRevokeNothing(permission) == FALSE

\* revoke_permission, lines 329-331: the owner's permission is not revoked
CannotRevoke(permission) == permission.role = OWNER

\* revoke_permission, lines 324-331; the router turns False into a 400
RevokeRead(p) ==
    /\ pc[p] = "revoke_read"
    /\ LET permission == GetUserPermission(loc[p].actor_perm, req[p].doc, req[p].user) IN
       IF ~permission.found
       THEN Finish(p, [op |-> "revoke", status |-> 400, revoked |-> FALSE,
                       user |-> req[p].user])
       ELSE IF CannotRevoke(permission.row)
       THEN Finish(p, [op |-> "revoke", status |-> 400, revoked |-> FALSE,
                       user |-> req[p].user])
       ELSE Goto(p, "revoke_commit", [op |-> "revoke", permission |-> permission.row])
    /\ UNCHANGED <<db, now>>

\* revoke_permission, lines 333-335: DELETE ... WHERE id = :id; a row that is
\* already gone only draws a warning
RevokeCommit(p) ==
    /\ pc[p] = "revoke_commit"
    /\ perms' = {x \in perms : x.id # loc[p].permission.id}
    /\ Finish(p, [op |-> "revoke", status |-> 200, revoked |-> TRUE,
                  user |-> req[p].user])
    /\ UNCHANGED <<users, docs, permSeq, invs, tokens, now>>

\* ---- DELETE /documents/{document_id} (archive)

\* Depends(require_owner), then get_document_by_id with include_archived =
\* True (routers/documents.py, lines 205-213)
ArchiveAuth(p, actor, d) ==
    /\ CurrentUser(actor)
    /\ LET r == [op |-> "archive", actor |-> actor, doc |-> d] IN
       IF ~CheckAccess(d, actor, OWNER)
       THEN StartFinish(p, [op |-> "archive", status |-> 403])
       ELSE IF d \notin DOMAIN docs
       THEN StartFinish(p, [op |-> "archive", status |-> 404])
       ELSE StartGoto(p, r, "archive_commit", [op |-> "archive", document |-> docs[d]])
    /\ UNCHANGED <<db, now>>

\* DocumentService.delete_document with soft_delete = True
ArchiveCommit(p) ==
    /\ pc[p] = "archive_commit"
    /\ docs' = [docs EXCEPT ![req[p].doc].is_archived =
                                Flush(@, loc[p].document.is_archived, TRUE)]
    /\ Finish(p, [op |-> "archive", status |-> 200])
    /\ UNCHANGED <<users, perms, permSeq, invs, tokens, now>>

\* the accounts that create documents in the specifications of sharing
ShareOwners == {"u1"}

\* the accounts that act in the specification of the permission routes
PermUsers == {"u1", "u2"}

PermNext ==
    \/ \E u \in PermUsers : SignUp(u)
    \/ \E u \in ShareOwners, d \in DocIds, public \in BOOLEAN : CreateDocument(u, d, public)
    \/ \E p \in Procs, a \in PermUsers, d \in DocIds : ArchiveAuth(p, a, d)
    \/ \E p \in Procs : ArchiveCommit(p)
    \/ \E p \in Procs, a \in PermUsers, d \in DocIds, t \in PermUsers, r \in DocumentRole :
          GrantAuth(p, a, d, t, r)
    \/ \E p \in Procs : GrantRead(p)
    \/ \E p \in Procs : GrantCommit(p)
    \/ \E p \in Procs, a \in PermUsers, d \in DocIds, t \in PermUsers : RevokeAuth(p, a, d, t)
    \/ \E p \in Procs : RevokeRead(p)
    \/ \E p \in Procs : RevokeCommit(p)

SpecPerm == Init /\ [][PermNext]_vars

\* the users that hold the OWNER role on the document d
OwnersOf(d) ==
    {u \in Users : \E x \in PermissionRows(d, u) : x.role = OWNER}

\* C3: every stored document has exactly one permission row with the role
\* OWNER.
C3_ExactlyOneOwner == \A d \in DOMAIN docs : Cardinality(OwnersOf(d)) = 1

\* C14: a grant_permission that returns leaves the role it was called with
\* as the role get_user_role resolves for its (document, user) pair: the
\* resolved role is the most recently granted one.
C14_ResolvesLastGrantedRole ==
    [][\A p \in Procs :
         (pc[p] = "grant_commit" /\ pc'[p] = "idle" /\ ret'[p].status = 200) =>
            \E x \in perms' : /\ x.document_id = req[p].doc
                              /\ x.user_id = req[p].user
                              /\ x.role = req[p].role
      ]_vars

\* the rank of a role in the order VIEWER < EDITOR < OWNER
ReferenceRank(role) == IF role = VIEWER THEN 1 ELSE IF role = EDITOR THEN 2 ELSE 3

\* the reference function for the access decision: the explicit role if
\* there is one, otherwise the public flag for VIEWER
ReferenceAccess(d, u, required) ==
    IF PermissionRows(d, u) # {}
    THEN \E x \in PermissionRows(d, u) : ReferenceRank(x.role) >= ReferenceRank(required)
    ELSE required = VIEWER /\ docs[d].is_public

\* C15: for every stored document, user and required role, check_access
\* returns what the reference function returns.
C15_CheckAccessIsReference ==
    \A d \in DOMAIN docs : \A u \in Users : \A required \in DocumentRole :
        CheckAccess(d, u, required) = ReferenceAccess(d, u, required)

\* C16: check_access is monotonic in the required role: refused VIEWER
\* means refused EDITOR and OWNER, and refused EDITOR means refused OWNER.
C16_CheckAccessMonotonic ==
    \A d \in DocIds : \A u \in Users :
        /\ ~CheckAccess(d, u, VIEWER) => (~CheckAccess(d, u, EDITOR) /\ ~CheckAccess(d, u, OWNER))
        /\ ~CheckAccess(d, u, EDITOR) => ~CheckAccess(d, u, OWNER)

\* C16 witness: on one document a user without a permission is refused
\* VIEWER, an EDITOR passes EDITOR and is refused OWNER, and the owner
\* passes OWNER
C16_EveryRankSeen ==
    \E d \in DOMAIN docs : \E u \in Users : \E v \in Users : \E w \in Users :
        /\ ~CheckAccess(d, u, VIEWER)
        /\ CheckAccess(d, v, EDITOR) /\ ~CheckAccess(d, v, OWNER)
        /\ CheckAccess(d, w, OWNER)

\* C12: a grant request with the role OWNER ends at its first statement
\* with an error, the 400 when the granter is the owner, and changes no
\* table, for every granter and target; and no grant that reaches the
\* service carries the role OWNER.
C12_GrantOwnerRejected ==
    [][\A p \in Procs :
         /\ \A a \in Users : \A d \in DocIds : \A t \in Users :
               (Idle(p) /\ GrantAuth(p, a, d, t, OWNER)) =>
                  /\ pc'[p] = "idle"
                  /\ ret'[p].op = "grant"
                  /\ ret'[p].status \in {400, 403}
                  /\ (d \in DOMAIN docs /\ a \in OwnersOf(d)) => ret'[p].status = 400
                  /\ db' = db
         /\ pc'[p] \in {"grant_read", "grant_commit"} => req'[p].role # OWNER
      ]_vars

\* C12 witness: a worker holds the 400 of a grant of OWNER on a stored
\* document whose only permission is its owner's
C12_GrantOwnerRefused ==
    \E p \in Procs : \E d \in DOMAIN docs :
        /\ IF ret[p].op = "grant" THEN ret[p].status = 400 ELSE FALSE
        /\ Cardinality(OwnersOf(d)) = 1
        /\ \A u \in Users : PermissionRows(d, u) # {} => u \in OwnersOf(d)

\* C4: a revoke_permission call whose target holds the OWNER role on the
\* document ends at its SELECT with False (the router's 400) and leaves the
\* permissions table as it is, and no DELETE of a revoke removes a row that
\* holds the OWNER role.
C4_OwnerNeverRevoked ==
    [][\A p \in Procs :
         LET k == <<req[p].doc, req[p].user>> IN
         /\ (pc[p] = "revoke_read" /\ pc'[p] # "revoke_read" /\ k[2] \in OwnersOf(k[1])) =>
               /\ pc'[p] = "idle"
               /\ ret'[p].status = 400
               /\ ~ret'[p].revoked
               /\ perms' = perms
         /\ (pc[p] = "revoke_commit" /\ pc'[p] # "revoke_commit" /\ k[2] \in OwnersOf(k[1])) =>
               perms' = perms
      ]_vars

\* C4 witness: a worker holds the refusal of a revoke whose target holds the
\* OWNER role, and the document has another collaborator
C4_OwnerRevokeRefused ==
    \E p \in Procs : \E d \in DOMAIN docs :
        /\ ret[p].op = "revoke"
        /\ IF ret[p].op = "revoke"
           THEN ret[p].status = 400 /\ ~ret[p].revoked /\ ret[p].user \in OwnersOf(d)
           ELSE FALSE
        /\ \E u \in Users : PermissionRows(d, u) # {} /\ u \notin OwnersOf(d)

\* ----------------------------------------------------------- invitations

\* invs is the invitations table in insertion order: the index of a row is
\* its primary key; a deleted row keeps its place and is marked deleted.
InvIds == 1..Len(invs)

\* select(User).where(User.email == email)
UserByEmail(email) ==
    LET found == {u \in DOMAIN users : users[u].email = email} IN
    IF found = {} THEN NullUser ELSE CHOOSE u \in found : TRUE

\* the PENDING invitations of a (document, invitee e-mail) pair
PendingFor(d, email) ==
    {i \in InvIds : /\ ~invs[i].deleted
                    /\ invs[i].document_id = d
                    /\ invs[i].invitee_email = email
                    /\ invs[i].status = PENDING}

\* an inviter check that asks for access to the document instead of a role
CanInviteWithAccess(d, inviter) == CheckAccess(d, inviter, VIEWER)

\* InvitationService.can_invite_to_document
CanInviteToDocument(d, inviter) ==
    LET permission == GetUserPermission(NothingLoaded, d, inviter) IN
    IF permission.found THEN permission.row.role \in {OWNER, EDITOR} ELSE FALSE

\* a collaborator check that finds nobody
IsAlreadyCollaboratorNever(d, email) == FALSE

\* InvitationService.is_already_collaborator
IsAlreadyCollaborator(d, email) ==
    LET user == UserByEmail(email) IN
    user # NullUser /\ PermissionRows(d, user) # {}

\* ---- POST /invitations

\* routers/invitations.py, lines 39-66: the three refusals of the router
InviteCheck(p, actor, d, email, role, message) ==
    /\ CurrentUser(actor)
    /\ LET r == [op |-> "invite", actor |-> actor, actor_email |-> users[actor].email,
                 doc |-> d, invitee_email |-> email, role |-> role,
                 message |-> message] IN
       IF ~CanInviteToDocument(d, actor)
       THEN StartFinish(p, [op |-> "invite", status |-> 403])
       ELSE IF IsAlreadyCollaborator(d, email)
       THEN StartFinish(p, [op |-> "invite", status |-> 400, detail |-> "collaborator"])
       ELSE IF email = users[actor].email
       THEN StartFinish(p, [op |-> "invite", status |-> 400, detail |-> "yourself"])
       ELSE StartGoto(p, r, "invite_read", [op |-> "invite"])
    /\ UNCHANGED <<db, now>>

\* create_invitation, lines 49-61: the invitee's account and the pending
\* invitation of the pair, as the two SELECTs find them
InviteRead(p) ==
    /\ pc[p] = "invite_read"
    /\ LET r == req[p]
           pending == PendingFor(r.doc, r.invitee_email)
           invitee == UserByEmail(r.invitee_email) IN
       IF pending = {}
       THEN Goto(p, "invite_commit",
                 [op |-> "invite", invitee |-> invitee, found |-> FALSE])
       ELSE LET i == CHOOSE x \in pending : TRUE IN
            Goto(p, "invite_commit",
                 [op |-> "invite", invitee |-> invitee, found |-> TRUE,
                  id |-> i, existing |-> invs[i]])
    /\ UNCHANGED <<db, now>>

\* an UPDATE of the existing invitation that keeps its role
InviteUpdateRowKeepsRole(stored, existing, r) ==
    [stored EXCEPT !.message = Flush(@, existing.message, r.message),
                   !.expires_at = Flush(@, existing.expires_at, now + INVITATION_EXPIRE_DAYS),
                   !.invited_by_id = Flush(@, existing.invited_by_id, r.actor)]

\* the row create_invitation's UPDATE of the existing invitation leaves
InviteUpdateRow(stored, existing, r) ==
    [stored EXCEPT !.role = Flush(@, existing.role, r.role),
                   !.message = Flush(@, existing.message, r.message),
                   !.expires_at = Flush(@, existing.expires_at, now + INVITATION_EXPIRE_DAYS),
                   !.invited_by_id = Flush(@, existing.invited_by_id, r.actor)]

\* the row create_invitation inserts
InviteNewRow(r, invitee) ==
    [document_id |-> r.doc, invited_by_id |-> r.actor,
     invitee_email |-> r.invitee_email, invitee_id |-> invitee,
     role |-> r.role, message |-> r.message, status |-> PENDING,
     expires_at |-> now + INVITATION_EXPIRE_DAYS, responded_at |-> NullTime,
     deleted |-> FALSE]

\* uq_document_invitee_email_pending, the partial unique index
PendingIndexAllows(d, email) == PendingFor(d, email) = {}

\* create_invitation, lines 63-87: the commit of the update or of the insert
InviteCommit(p) ==
    /\ pc[p] = "invite_commit"
    /\ LET r == req[p]
           l == loc[p] IN
       IF l.found
       THEN IF invs[l.id].deleted
            THEN /\ Finish(p, [op |-> "invite", status |-> 500, detail |-> "StaleDataError"])
                 /\ UNCHANGED invs
            ELSE /\ invs' = [invs EXCEPT ![l.id] = InviteUpdateRow(@, l.existing, r)]
                 /\ Finish(p, [op |-> "invite", status |-> 201, detail |-> "updated"])
       ELSE IF r.doc \notin DOMAIN docs
            THEN /\ Finish(p, [op |-> "invite", status |-> 500, detail |-> "ForeignKey"])
                 /\ UNCHANGED invs
            ELSE IF ~PendingIndexAllows(r.doc, r.invitee_email)
            THEN /\ Finish(p, [op |-> "invite", status |-> 500,
                               detail |-> "uq_document_invitee_email_pending"])
                 /\ UNCHANGED invs
            ELSE /\ Len(invs) < MaxInvs
                 /\ invs' = Append(invs, InviteNewRow(r, l.invitee))
                 /\ Finish(p, [op |-> "invite", status |-> 201, detail |-> "inserted"])
    /\ UNCHANGED <<users, docs, perms, permSeq, tokens, now>>

\* ---- POST /invitations/{invitation_id}/respond

\* InvitationService.get_invitation_by_id
GetInvitationById(i) ==
    IF i \in InvIds
    THEN IF invs[i].deleted THEN [found |-> FALSE] ELSE [found |-> TRUE, row |-> invs[i]]
    ELSE [found |-> FALSE]

\* an identity check that every caller passes
IsInviteeAnyone(invitation, r) == TRUE

\* routers/invitations.py, lines 197-200
IsInvitee(invitation, r) ==
    invitation.invitee_id = r.actor \/ invitation.invitee_email = r.actor_email

\* a status check that lets every invitation through
AlreadyRespondedNever(invitation) == FALSE

\* a status check that also refuses an invitation past its expiry time
AlreadyRespondedOrExpired(invitation) ==
    invitation.status # PENDING \/ invitation.expires_at <= now

\* routers/invitations.py, line 209
AlreadyResponded(invitation) == invitation.status # PENDING

\* routers/invitations.py, lines 188-213: the SELECT and the three refusals
RespondRead(p, actor, i, accept) ==
    /\ CurrentUser(actor)
    /\ LET r == [op |-> "respond", actor |-> actor, actor_email |-> users[actor].email,
                 id |-> i, accept |-> accept]
           got == GetInvitationById(i) IN
       IF ~got.found
       THEN StartFinish(p, [op |-> "respond", status |-> 404])
       ELSE IF ~IsInvitee(got.row, r)
       THEN StartFinish(p, [op |-> "respond", status |-> 403])
       ELSE IF AlreadyResponded(got.row)
       THEN StartFinish(p, [op |-> "respond", status |-> 400, detail |-> got.row.status])
       ELSE StartGoto(p, r, "respond_commit", [op |-> "respond", invitation |-> got.row])
    /\ UNCHANGED <<db, now>>

\* an UPDATE of the accepted invitation that does not bind the invitee
AcceptRowUnbound(stored, invitation, user_id) ==
    [stored EXCEPT !.status = Flush(@, invitation.status, ACCEPTED),
                   !.responded_at = Flush(@, invitation.responded_at, now)]

\* the row accept_invitation's UPDATE leaves
AcceptRow(stored, invitation, user_id) ==
    [stored EXCEPT !.status = Flush(@, invitation.status, ACCEPTED),
                   !.responded_at = Flush(@, invitation.responded_at, now),
                   !.invitee_id = Flush(@, invitation.invitee_id, user_id)]

\* an UPDATE of a declined invitation that unbinds the invitee
DeclineRowUnbinds(stored, invitation) ==
    [stored EXCEPT !.status = Flush(@, invitation.status, DECLINED),
                   !.responded_at = Flush(@, invitation.responded_at, now),
                   !.invitee_id = NullUser]

\* the row decline_invitation's UPDATE leaves
DeclineRow(stored, invitation) ==
    [stored EXCEPT !.status = Flush(@, invitation.status, DECLINED),
                   !.responded_at = Flush(@, invitation.responded_at, now)]

\* accept_invitation, lines 211-227: the UPDATE of the invitation and the
\* INSERT of the permission commit together or not at all
AcceptCommit(p) ==
    /\ pc[p] = "respond_commit"
    /\ req[p].accept
    /\ LET r == req[p]
           invitation == loc[p].invitation IN
       IF invs[r.id].deleted
       THEN /\ Finish(p, [op |-> "respond", status |-> 500, detail |-> "StaleDataError"])
            /\ UNCHANGED <<invs, perms, permSeq>>
       ELSE IF ~PermissionIndexAllows(invitation.document_id, r.actor)
       THEN /\ Finish(p, [op |-> "respond", status |-> 500,
                          detail |-> "uq_document_user_permission"])
            /\ UNCHANGED <<invs, perms, permSeq>>
       ELSE /\ permSeq < MaxPermRows
            /\ invs' = [invs EXCEPT ![r.id] = AcceptRow(@, invitation, r.actor)]
            /\ permSeq' = permSeq + 1
            /\ perms' = perms \cup {[id |-> permSeq + 1,
                                    document_id |-> invitation.document_id,
                                    user_id |-> r.actor, role |-> invitation.role,
                                    granted_by_id |-> invitation.invited_by_id]}
            /\ Finish(p, [op |-> "respond", status |-> 200, detail |-> ACCEPTED, id |-> r.id])
    /\ UNCHANGED <<users, docs, tokens, now>>

\* decline_invitation, lines 235-240
DeclineCommit(p) ==
    /\ pc[p] = "respond_commit"
    /\ ~req[p].accept
    /\ IF invs[req[p].id].deleted
       THEN /\ Finish(p, [op |-> "respond", status |-> 500, detail |-> "StaleDataError"])
            /\ UNCHANGED invs
       ELSE /\ invs' = [invs EXCEPT ![req[p].id] = DeclineRow(@, loc[p].invitation)]
            /\ Finish(p, [op |-> "respond", status |-> 200, detail |-> DECLINED,
                          id |-> req[p].id])
    /\ UNCHANGED <<users, docs, perms, permSeq, tokens, now>>

\* ---- DELETE /invitations/{invitation_id}

\* a status check that lets every invitation be cancelled
CannotCancelNever(invitation) == FALSE

\* cancel_invitation, line 248: the status of the invitation as loaded
CannotCancel(invitation) == invitation.status # PENDING

\* routers/invitations.py, lines 244-260, and cancel_invitation, lines
\* 248-249: the SELECT, the two refusals of the router and the status check
\* on the invitation as loaded
CancelRead(p, actor, i) ==
    /\ CurrentUser(actor)
    /\ LET r == [op |-> "cancel", actor |-> actor, id |-> i]
           got == GetInvitationById(i) IN
       IF ~got.found
       THEN StartFinish(p, [op |-> "cancel", status |-> 404])
       ELSE IF got.row.invited_by_id # actor
       THEN StartFinish(p, [op |-> "cancel", status |-> 403])
       ELSE IF CannotCancel(got.row)
       THEN StartFinish(p, [op |-> "cancel", status |-> 400])
       ELSE StartGoto(p, r, "cancel_commit", [op |-> "cancel", invitation |-> got.row])
    /\ UNCHANGED <<db, now>>

\* cancel_invitation, lines 251-253: DELETE FROM invitations WHERE id =
\* :id; a row that is already gone only draws a warning
CancelCommit(p) ==
    /\ pc[p] = "cancel_commit"
    /\ invs' = [invs EXCEPT ![req[p].id].deleted = TRUE]
    /\ Finish(p, [op |-> "cancel", status |-> 200, id |-> req[p].id])
    /\ UNCHANGED <<users, docs, perms, permSeq, tokens, now>>

\* ---- InvitationService.expire_old_invitations

\* a SELECT of the sweep that returns no row
SweepSelectsNothing(invitation) == FALSE

\* a SELECT of the sweep without the comparison of expires_at
SweepSelectsPending(invitation) ==
    /\ ~invitation.deleted
    /\ invitation.status = PENDING

\* the rows the SELECT of expire_old_invitations returns, lines 269-272
SweepSelects(invitation) ==
    /\ ~invitation.deleted
    /\ invitation.status = PENDING
    /\ invitation.expires_at <= now

\* lines 269-274: the scan
SweepScan(p) ==
    /\ StartGoto(p, [op |-> "sweep"], "sweep_commit",
                 [op |-> "sweep",
                  invitations |-> {i \in InvIds : SweepSelects(invs[i])}])
    /\ UNCHANGED <<db, now>>

\* lines 276-282: every scanned row, loaded as PENDING, is set to EXPIRED
\* and the UPDATEs commit
SweepCommit(p) ==
    /\ pc[p] = "sweep_commit"
    /\ LET scanned == loc[p].invitations IN
       IF \E i \in scanned : invs[i].deleted
       THEN /\ Finish(p, [op |-> "sweep", status |-> 500, detail |-> "StaleDataError"])
            /\ UNCHANGED invs
       ELSE /\ invs' = [i \in InvIds |->
                          IF i \in scanned
                          THEN [invs[i] EXCEPT !.status = Flush(@, PENDING, EXPIRED)]
                          ELSE invs[i]]
            /\ Finish(p, [op |-> "sweep", status |-> 200, count |-> Cardinality(scanned)])
    /\ UNCHANGED <<users, docs, perms, permSeq, tokens, now>>

InviteTick ==
    /\ now + INVITATION_EXPIRE_DAYS <= MaxShareTime
    /\ now' = now + INVITATION_EXPIRE_DAYS
    /\ UNCHANGED <<db, pc, req, loc, ret>>

\* the accounts that act in the specification of the invitations
InviteUsers == {"u1", "u2"}
\* the roles invitations are created with in that specification
InviteRoles == {EDITOR}

InviteNext ==
    \/ \E u \in InviteUsers : SignUp(u)
    \/ \E u \in ShareOwners, d \in DocIds : CreateDocument(u, d, FALSE)
    \/ \E p \in Procs, a \in InviteUsers, d \in DocIds, u \in InviteUsers,
          r \in InviteRoles, m \in Messages : InviteCheck(p, a, d, Email(u), r, m)
    \/ \E p \in Procs : InviteRead(p)
    \/ \E p \in Procs : InviteCommit(p)
    \/ \E p \in Procs, a \in InviteUsers, i \in 1..MaxInvs, c \in BOOLEAN :
          RespondRead(p, a, i, c)
    \/ \E p \in Procs : AcceptCommit(p)
    \/ \E p \in Procs : DeclineCommit(p)
    \/ \E p \in Procs : SweepScan(p)
    \/ \E p \in Procs : SweepCommit(p)
    \/ InviteTick

SpecInvite == Init /\ [][InviteNext]_vars

\* the worker p holds the result of a create_invitation that ended in the
\* violation of the partial unique index
InviteLostToIndex(p) ==
    IF ret[p].op = "invite"
    THEN IF ret[p].status = 500
         THEN ret[p].detail = "uq_document_invitee_email_pending"
         ELSE FALSE
    ELSE FALSE

\* C5: every (document, invitee e-mail) pair has at most one PENDING
\* invitation, and no create_invitation ends in an error of the unique
\* index on the pending pair instead of being applied as an update.
C5_OnePendingNoCreateLost ==
    /\ \A d \in DocIds : \A e \in Emails : Cardinality(PendingFor(d, e)) <= 1
    /\ \A p \in Procs : ~InviteLostToIndex(p)

\* the worker p holds the result of a respond that moved the invitation i
\* out of PENDING
RespondSucceeded(p, i) ==
    IF ret[p].op = "respond"
    THEN IF ret[p].status = 200 THEN ret[p].id = i ELSE FALSE
    ELSE FALSE

\* C6: of the respond calls on one invitation exactly one performs the
\* transition out of PENDING: a status never returns to PENDING, so no two
\* workers ever hold a successful respond on the same invitation.
C6_OneTransitionOutOfPending ==
    \A i \in InvIds : \A p \in Procs : \A q \in Procs \ {p} :
        ~(RespondSucceeded(p, i) /\ RespondSucceeded(q, i))

\* C7: a respond on a stored invitation whose status is not PENDING ends at
\* its first statement with an error and changes no table (so it creates no
\* permission); when the caller is the invitee the error is the 400 whose
\* detail is the invitation's current status.
C7_RespondOnResolvedFails ==
    [][\A p \in Procs : \A a \in Users : \A i \in InvIds : \A c \in BOOLEAN :
         (/\ Idle(p)
          /\ ~invs[i].deleted
          /\ invs[i].status # PENDING
          /\ RespondRead(p, a, i, c)) =>
             /\ pc'[p] = "idle"
             /\ ret'[p].op = "respond"
             /\ ret'[p].status \in {400, 403}
             /\ db' = db
             /\ (invs[i].invitee_id = a \/ invs[i].invitee_email = users[a].email) =>
                    (ret'[p].status = 400 /\ ret'[p].detail = invs[i].status)
      ]_vars

\* C7 witness: a worker holds the 400 of a respond on an invitation that a
\* sweep has set to EXPIRED
C7_RespondOnExpiredRefused ==
    \E p \in Procs :
        IF ret[p].op = "respond"
        THEN IF ret[p].status = 400
             THEN ret[p].detail = EXPIRED /\ (\E i \in InvIds : invs[i].status = EXPIRED)
             ELSE FALSE
        ELSE FALSE

\* C39: respond decides on the status and on the identity of the caller
\* only, never on expires_at: a respond by the invitee on a stored PENDING
\* invitation whose expires_at has passed is not refused at its first
\* statement, and the commit of an accept of such an invitation, when the
\* row is still stored and the invitee holds no permission on the document,
\* sets the invitation ACCEPTED and inserts the permission with the
\* invitation's role.
C39_ExpiredPendingAccepted ==
    [][\A p \in Procs :
         /\ \A a \in InviteUsers : \A i \in InvIds : \A c \in BOOLEAN :
               (/\ Idle(p)
                /\ ~invs[i].deleted
                /\ invs[i].status = PENDING
                /\ invs[i].expires_at <= now
                /\ a \in DOMAIN users
                /\ RespondRead(p, a, i, c)
                /\ (invs[i].invitee_id = a \/ invs[i].invitee_email = users[a].email)) =>
                   /\ pc'[p] = "respond_commit"
                   /\ loc'[p].invitation = invs[i]
         /\ (/\ pc[p] = "respond_commit"
             /\ pc'[p] = "idle"
             /\ req[p].accept
             /\ loc[p].invitation.expires_at <= now
             /\ ~invs[req[p].id].deleted
             /\ PermissionIndexAllows(loc[p].invitation.document_id, req[p].actor)) =>
                /\ ret'[p].status = 200
                /\ invs'[req[p].id].status = ACCEPTED
                /\ \E row \in perms' \ perms :
                      /\ row.document_id = loc[p].invitation.document_id
                      /\ row.user_id = req[p].actor
                      /\ row.role = loc[p].invitation.role
      ]_vars

\* C39 witness: an invitation is ACCEPTED with a response time at or after
\* its expiry time, the invitee holds the permission of its role on the
\* document, and a worker holds the 200 of that accept
C39_AcceptedAfterExpiry ==
    \E i \in InvIds : \E p \in Procs :
        /\ invs[i].status = ACCEPTED
        /\ invs[i].responded_at >= invs[i].expires_at
        /\ RespondSucceeded(p, i)
        /\ \E row \in perms : /\ row.document_id = invs[i].document_id
                               /\ row.user_id = invs[i].invitee_id
                               /\ row.role = invs[i].role

\* C19: ACCEPTED, DECLINED and EXPIRED are terminal: no step changes the
\* status of an invitation that holds one of them, or deletes its row.
C19_TerminalStatuses ==
    [][\A i \in InvIds :
         invs[i].status \in {ACCEPTED, DECLINED, EXPIRED} =>
            /\ invs'[i].status = invs[i].status
            /\ invs'[i].deleted = invs[i].deleted]_vars

\* C20: a respond by a user whose id is not the invitation's invitee_id and
\* whose e-mail is not its invitee_email ends at its first statement with
\* the 403 and changes no table; and the permission an accept inserts is
\* for its acting user, who matches the stored invitation by id or e-mail.
C20_OnlyInviteeResponds ==
    [][\A p \in Procs :
         /\ \A a \in Users : \A i \in InvIds : \A c \in BOOLEAN :
               (/\ Idle(p)
                /\ a \in DOMAIN users
                /\ ~invs[i].deleted
                /\ invs[i].invitee_id # a
                /\ invs[i].invitee_email # users[a].email
                /\ RespondRead(p, a, i, c)) =>
                   /\ pc'[p] = "idle"
                   /\ ret'[p].op = "respond"
                   /\ ret'[p].status = 403
                   /\ db' = db
         /\ (pc[p] = "respond_commit" /\ pc'[p] = "idle") =>
               \A x \in perms' \ perms :
                   /\ x.user_id = req[p].actor
                   /\ \/ invs[req[p].id].invitee_id = x.user_id
                      \/ invs[req[p].id].invitee_email = users[x.user_id].email
      ]_vars

\* C20 witness: a worker holds the 403 of a respond while an invitation for
\* another user is PENDING and that user has no permission
C20_StrangerRefused ==
    \E p \in Procs : \E i \in InvIds :
        /\ IF ret[p].op = "respond" THEN ret[p].status = 403 ELSE FALSE
        /\ invs[i].status = PENDING
        /\ \E u \in DOMAIN users : invs[i].invitee_email # users[u].email
        /\ \A u \in Users : invs[i].invitee_email = Email(u) =>
               PermissionRows(invs[i].document_id, u) = {}

\* C10: no step replaces the status ACCEPTED or DECLINED of an invitation
\* with EXPIRED.
C10_SweepKeepsResponse ==
    [][\A i \in InvIds :
         invs[i].status \in {ACCEPTED, DECLINED} => invs'[i].status # EXPIRED]_vars

\* the stored invitations that are PENDING and whose expires_at has passed
ExpiredPending ==
    {i \in InvIds : /\ ~invs[i].deleted
                    /\ invs[i].status = PENDING
                    /\ invs[i].expires_at <= now}

\* C30: expire_old_invitations scans exactly the invitations that are
\* PENDING with expires_at <= now, without a write; its commit sets the
\* status of the scanned invitations to EXPIRED, reports their number and
\* changes no other invitation, no other column and no permission; the
\* invitations it marked are PENDING and expired no longer, so a run that
\* follows at the same time scans nothing, changes nothing and reports 0.
C30_SweepExactAndIdempotent ==
    [][\A p \in Procs :
         /\ (Idle(p) /\ SweepScan(p)) =>
               /\ loc'[p].invitations = ExpiredPending
               /\ db' = db
         /\ (pc[p] = "sweep_commit" /\ pc'[p] = "idle"
                /\ \A i \in loc[p].invitations : ~invs[i].deleted) =>
               /\ invs' = [i \in InvIds |->
                              IF i \in loc[p].invitations
                              THEN [invs[i] EXCEPT !.status = EXPIRED]
                              ELSE invs[i]]
               /\ ret'[p].count = Cardinality(loc[p].invitations)
               /\ <<users, docs, perms, permSeq, tokens>>' = <<users, docs, perms, permSeq, tokens>>
               /\ ExpiredPending' = ExpiredPending \ loc[p].invitations
               /\ loc[p].invitations = {} => (invs' = invs /\ ret'[p].count = 0)
      ]_vars

\* C30 witness: an invitation is EXPIRED beside an invitation that is
\* PENDING and not yet expired, no invitation is left to expire, one worker
\* holds the report of the sweep that marked one invitation and the other
\* the report of a sweep that marked none
C30_SweptOnceThenNothing ==
    \E p \in Procs : \E q \in Procs \ {p} : \E i \in InvIds : \E j \in InvIds \ {i} :
        /\ IF ret[p].op = "sweep" /\ ret[q].op = "sweep"
           THEN /\ ret[p].status = 200 /\ ret[q].status = 200
                /\ ret[p].count = 1 /\ ret[q].count = 0
           ELSE FALSE
        /\ invs[i].status = EXPIRED
        /\ invs[j].status = PENDING
        /\ invs[j].expires_at > now
        /\ ExpiredPending = {}

\* the invitation routes with the cancel route, the sweep and the clock
CancelNext ==
    \/ \E u \in InviteUsers : SignUp(u)
    \/ \E u \in ShareOwners, d \in DocIds : CreateDocument(u, d, FALSE)
    \/ \E p \in Procs, a \in InviteUsers, d \in DocIds, u \in InviteUsers,
          r \in InviteRoles, m \in Messages : InviteCheck(p, a, d, Email(u), r, m)
    \/ \E p \in Procs : InviteRead(p)
    \/ \E p \in Procs : InviteCommit(p)
    \/ \E p \in Procs, a \in InviteUsers, i \in 1..MaxInvs, c \in BOOLEAN :
          RespondRead(p, a, i, c)
    \/ \E p \in Procs : AcceptCommit(p)
    \/ \E p \in Procs : DeclineCommit(p)
    \/ \E p \in Procs, a \in InviteUsers, i \in 1..MaxInvs : CancelRead(p, a, i)
    \/ \E p \in Procs : CancelCommit(p)
    \/ \E p \in Procs : SweepScan(p)
    \/ \E p \in Procs : SweepCommit(p)
    \/ InviteTick

SpecCancel == Init /\ [][CancelNext]_vars

\* C29: a cancel by a user who is not the invitation's inviter, or of an
\* invitation whose status is ACCEPTED, DECLINED or EXPIRED, fails and
\* leaves every table as it is; a cancel by the inviter of an invitation it
\* finds PENDING goes on to its DELETE, which removes the row and changes
\* nothing else; and a row is deleted only by a cancel of its inviter that
\* found it PENDING.
C29_CancelIffInviterAndPending ==
    [][\A i \in InvIds :
         /\ \A p \in Procs : \A a \in InviteUsers :
               (/\ Idle(p)
                /\ a \in DOMAIN users
                /\ ~invs[i].deleted
                /\ CancelRead(p, a, i)) =>
                   IF invs[i].invited_by_id = a /\ invs[i].status = PENDING
                   THEN pc'[p] = "cancel_commit" /\ db' = db
                   ELSE /\ pc'[p] = "idle"
                        /\ ret'[p].status \in {400, 403}
                        /\ db' = db
         /\ \A p \in Procs :
               (pc[p] = "cancel_commit" /\ pc'[p] = "idle" /\ req[p].id = i) =>
                  /\ invs' = [invs EXCEPT ![i].deleted = TRUE]
                  /\ <<users, docs, perms, permSeq, tokens>>' = <<users, docs, perms, permSeq, tokens>>
         /\ (~invs[i].deleted /\ invs'[i].deleted) =>
               \E p \in Procs : /\ pc[p] = "cancel_commit"
                                /\ req[p].id = i
                                /\ loc[p].invitation.invited_by_id = req[p].actor
                                /\ loc[p].invitation.status = PENDING
      ]_vars

\* C29 witness: one invitation has been deleted by the cancel a worker
\* holds the result of, and the other worker holds the refusal of a cancel
\* of the second invitation, which is stored with the status ACCEPTED,
\* beside the permission the accept created
C29_CancelledAndRefused ==
    \E p \in Procs : \E q \in Procs \ {p} : \E i \in InvIds : \E j \in InvIds \ {i} :
        /\ IF ret[p].op = "cancel"
           THEN IF ret[p].status = 200 THEN ret[p].id = i ELSE FALSE
           ELSE FALSE
        /\ invs[i].deleted
        /\ invs[i].status = PENDING
        /\ IF ret[q].op = "cancel" THEN ret[q].status = 400 ELSE FALSE
        /\ ~invs[j].deleted
        /\ invs[j].status = ACCEPTED
        /\ PermissionRows(invs[j].document_id, invs[j].invitee_id) # {}

\* ---------------------------------------------- writes and archived documents

\* update_crdt_state, lines 372-375, for a document that is not stored:
\* get_document_by_id returns None and so does the write
WriteMissing(p, d, s, has, ev) ==
    /\ d \notin DOMAIN docs
    /\ StartFinish(p, [op |-> "write", value |-> "None", line |-> 375,
                       req |-> [op |-> "write", doc |-> d, crdt_state |-> s,
                                has_expected |-> has, expected_version |-> ev]])
    /\ UNCHANGED <<db, now>>

\* update_crdt_state on documents that are missing, stored or archived
ArchiveNext ==
    \/ \E u \in WriteUsers : SignUp(u)
    \/ \E u \in WriteUsers, d \in DocIds : CreateDocument(u, d, FALSE)
    \/ \E p \in Procs, a \in WriteUsers, d \in DocIds : ArchiveAuth(p, a, d)
    \/ \E p \in Procs : ArchiveCommit(p)
    \/ \E p \in Procs, d \in DocIds, s \in Blobs, has \in BOOLEAN, ev \in 0..MaxVersion :
          /\ (~has => ev = 0)
          /\ WriteMissing(p, d, s, has, ev)
    \/ \E p \in Procs, d \in DocIds, s \in Blobs, has \in BOOLEAN, ev \in 0..MaxVersion :
          /\ (~has => ev = 0)
          /\ WriteRead(p, d, s, has, ev)
    \/ \E p \in Procs : WriteCommit(p)

SpecArchive == Init /\ [][ArchiveNext]_vars

\* the worker p holds the result of a write that found no document
WriteNotFound(p) ==
    IF ret[p].op = "write" THEN ret[p].line = 375 ELSE FALSE

\* C36: the value update_crdt_state returns for a version conflict differs
\* from the value it returns for a document that is missing or archived.
C36_ConflictIsNotNotFound ==
    \A p \in Procs : \A q \in Procs :
        (WriteConflicted(p) /\ WriteNotFound(q)) => ret[p].value # ret[q].value

\* the invitation routes with expire_old_invitations run again and again:
\* a request that has started runs to its end (every statement of a
\* handler returns), and every worker that is free again and again starts
\* a sweep
SpecSweep ==
    /\ Init
    /\ [][CancelNext]_vars
    /\ \A p \in Procs :
          /\ WF_vars(InviteRead(p))
          /\ WF_vars(InviteCommit(p))
          /\ WF_vars(AcceptCommit(p))
          /\ WF_vars(DeclineCommit(p))
          /\ WF_vars(CancelCommit(p))
          /\ WF_vars(SweepCommit(p))
          /\ SF_vars(SweepScan(p))

ShareGrantRoles == {EDITOR}
ShareRoles == {VIEWER}

\* grant, revoke, invite and accept together, at one time
ShareNext ==
    \/ \E u \in InviteUsers : SignUp(u)
    \/ \E u \in ShareOwners, d \in DocIds : CreateDocument(u, d, FALSE)
    \/ \E p \in Procs, a \in InviteUsers, d \in DocIds, t \in InviteUsers,
          r \in ShareGrantRoles : GrantAuth(p, a, d, t, r)
    \/ \E p \in Procs : GrantRead(p)
    \/ \E p \in Procs : GrantCommit(p)
    \/ \E p \in Procs, a \in InviteUsers, d \in DocIds, t \in InviteUsers :
          RevokeAuth(p, a, d, t)
    \/ \E p \in Procs : RevokeRead(p)
    \/ \E p \in Procs : RevokeCommit(p)
    \/ \E p \in Procs, a \in InviteUsers, d \in DocIds, u \in InviteUsers,
          r \in ShareRoles, m \in Messages : InviteCheck(p, a, d, Email(u), r, m)
    \/ \E p \in Procs : InviteRead(p)
    \/ \E p \in Procs : InviteCommit(p)
    \/ \E p \in Procs, a \in InviteUsers, i \in 1..MaxInvs : RespondRead(p, a, i, TRUE)
    \/ \E p \in Procs : AcceptCommit(p)

SpecShare == Init /\ [][ShareNext]_vars

\* C11: every (document, user) pair has at most one permission row, whatever
\* the order and interleaving of create_document, grant_permission,
\* revoke_permission and accept_invitation.
C11_OneRowPerPair ==
    \A d \in DocIds : \A u \in Users : Cardinality(PermissionRows(d, u)) <= 1

\* C11 witness: an accept_invitation has run into the unique constraint: its
\* INSERT was refused because a grant had inserted the pair's row first
C11_SecondInsertRefused ==
    \E p \in Procs : \E d \in DocIds : \E u \in Users :
        /\ IF ret[p].op = "respond"
           THEN IF ret[p].status = 500
                THEN ret[p].detail = "uq_document_user_permission"
                ELSE FALSE
           ELSE FALSE
        /\ \E x \in PermissionRows(d, u) : x.role = EDITOR
        /\ \E i \in InvIds : /\ invs[i].document_id = d
                             /\ invs[i].invitee_email = Email(u)
                             /\ invs[i].status = PENDING

\* C27: an accept_invitation that commits while its user already holds a
\* permission on the invitation's document and the invitation is PENDING
\* succeeds: the invitation becomes ACCEPTED and the pair's one permission
\* row holds the invitation's role.
C27_AcceptUpdatesPermission ==
    [][\A p \in Procs : \A i \in InvIds : \A u \in Users :
         (/\ pc[p] = "respond_commit"
          /\ pc'[p] = "idle"
          /\ req[p].accept
          /\ req[p].id = i
          /\ req[p].actor = u
          /\ ~invs[i].deleted
          /\ invs[i].status = PENDING
          /\ PermissionRows(invs[i].document_id, u) # {}) =>
             /\ ret'[p].status = 200
             /\ invs'[i].status = ACCEPTED
             /\ {x.role : x \in {y \in perms' : /\ y.document_id = invs[i].document_id
                                                /\ y.user_id = u}} = {invs[i].role}
             /\ Cardinality({y \in perms' : /\ y.document_id = invs[i].document_id
                                            /\ y.user_id = u}) = 1
      ]_vars

\* DocumentService.get_user_role: the role of the pair's permission, None
\* without one
GetUserRole(d, u) ==
    LET permission == GetUserPermission(NothingLoaded, d, u) IN
    IF permission.found THEN permission.row.role ELSE "None"

\* C26: in every state the grant, revoke and invitation routes reach, the
\* role get_user_role resolves for a document and the user who created it
\* is OWNER, also after a grant_permission that names the creator with the
\* role EDITOR or VIEWER.
C26_CreatorStaysOwner ==
    \A d \in DOMAIN docs : GetUserRole(d, docs[d].owner_id) = OWNER

\* the invitation routes with every role, at one time
RolesNext ==
    \/ \E u \in InviteUsers : SignUp(u)
    \/ \E u \in ShareOwners, d \in DocIds : CreateDocument(u, d, FALSE)
    \/ \E p \in Procs, a \in InviteUsers, d \in DocIds, u \in InviteUsers,
          r \in DocumentRole, m \in Messages : InviteCheck(p, a, d, Email(u), r, m)
    \/ \E p \in Procs : InviteRead(p)
    \/ \E p \in Procs : InviteCommit(p)
    \/ \E p \in Procs, a \in InviteUsers, i \in 1..MaxInvs, c \in BOOLEAN :
          RespondRead(p, a, i, c)
    \/ \E p \in Procs : AcceptCommit(p)
    \/ \E p \in Procs : DeclineCommit(p)

SpecRoles == Init /\ [][RolesNext]_vars

C18_AcceptAllOrNothing ==
    [][\A p \in Procs :
         /\ \A a \in Users : \A i \in InvIds :
               (/\ Idle(p)
                /\ a \in DOMAIN users
                /\ ~invs[i].deleted
                /\ invs[i].status = PENDING
                /\ (invs[i].invitee_id = a \/ invs[i].invitee_email = users[a].email)
                /\ RespondRead(p, a, i, TRUE)) => pc'[p] = "respond_commit"
         /\ (pc[p] = "respond_commit" /\ pc'[p] = "idle" /\ req[p].accept) =>
               LET i == req[p].id
                   a == req[p].actor
                   invitation == loc[p].invitation IN
               \/ /\ ret'[p].status = 200
                  /\ invs'[i].status = ACCEPTED
                  /\ invs'[i].responded_at = now
                  /\ invs'[i].invitee_id = a
                  /\ Cardinality(perms' \ perms) = 1
                  /\ perms \subseteq perms'
                  /\ \A x \in perms' \ perms : /\ x.document_id = invitation.document_id
                                                /\ x.user_id = a
                                                /\ x.role = invitation.role
               \/ /\ ret'[p].status = 500
                  /\ invs' = invs
                  /\ perms' = perms
      ]_vars

\* C18 witness: the late binding has happened: an invitation is ACCEPTED and
\* bound to a user who holds the permission at its role, while a create
\* that read the invitation before the accept still holds it without an
\* invitee_id
C18_LateBound ==
    \E p \in Procs : \E q \in Procs \ {p} : \E i \in InvIds : \E u \in Users :
        /\ RespondSucceeded(p, i)
        /\ invs[i].status = ACCEPTED
        /\ invs[i].invitee_id = u
        /\ \E x \in PermissionRows(invs[i].document_id, u) : x.role = invs[i].role
        /\ pc[q] = "invite_commit"
        /\ IF pc[q] = "invite_commit"
           THEN IF loc[q].found
                THEN loc[q].id = i /\ loc[q].existing.invitee_id = NullUser
                ELSE FALSE
           ELSE FALSE

\* C28: a respond with accept = false by the invitee of a PENDING
\* invitation goes on to its commit without a write, and the commit sets
\* the status of the invitation to DECLINED and stamps responded_at: it
\* leaves the permissions, the invitation's invitee_id, role and other
\* columns, and every other invitation as they are.
C28_DeclineOnlyDeclines ==
    [][\A p \in Procs : \A i \in InvIds :
         /\ \A a \in InviteUsers :
               (/\ Idle(p)
                /\ a \in DOMAIN users
                /\ ~invs[i].deleted
                /\ invs[i].status = PENDING
                /\ \/ invs[i].invitee_id = a
                   \/ invs[i].invitee_email = users[a].email
                /\ RespondRead(p, a, i, FALSE)) =>
                   /\ pc'[p] = "respond_commit"
                   /\ db' = db
         /\ (/\ pc[p] = "respond_commit"
             /\ pc'[p] = "idle"
             /\ ~req[p].accept
             /\ req[p].id = i
             /\ ~invs[i].deleted) =>
               /\ ret'[p].status = 200
               /\ invs' = [invs EXCEPT ![i].status = DECLINED, ![i].responded_at = now]
               /\ <<users, docs, perms, permSeq, tokens>>' = <<users, docs, perms, permSeq, tokens>>
      ]_vars

\* C28 witness: a worker holds the result of the decline of an invitation
\* that is DECLINED and still carries its invitee and its role, the invitee
\* has no permission on the document, and another invitation is stored
C28_DeclinedBesideAnother ==
    \E p \in Procs : \E i \in InvIds : \E j \in InvIds \ {i} :
        /\ IF ret[p].op = "respond"
           THEN IF ret[p].status = 200
                THEN ret[p].detail = DECLINED /\ ret[p].id = i
                ELSE FALSE
           ELSE FALSE
        /\ invs[i].status = DECLINED
        /\ invs[i].invitee_id \in DOMAIN users
        /\ invs[i].role = EDITOR
        /\ PermissionRows(invs[i].document_id, invs[i].invitee_id) = {}
        /\ invs[j].status = PENDING

\* C32: the invitation a create_invitation returns, inserted or updated in
\* place, carries as invitee_id the id of the account its SELECT found for
\* the invitee e-mail, and no invitee_id when the SELECT found no account.
C32_InviteeResolved ==
    [][\A p \in Procs :
         (/\ pc[p] = "invite_commit"
          /\ pc'[p] = "idle"
          /\ ret'[p].status = 201) =>
             IF loc[p].found
             THEN invs'[loc[p].id].invitee_id = loc[p].invitee
             ELSE invs'[Len(invs')].invitee_id = loc[p].invitee
      ]_vars

\* C13: no invitation carries the role OWNER, and the only user who holds
\* the role OWNER on a document is the one create_document gave it to (no
\* accept produces an OWNER permission).
C13_NoOwnerInvitation ==
    /\ \A i \in InvIds : invs[i].role # OWNER
    /\ \A d \in DOMAIN docs : OwnersOf(d) \subseteq {docs[d].owner_id}

\* the roles granted in the specification of the inviter's role
InviterGrantRoles == {VIEWER, EDITOR}

\* create_document with and without the public flag, grant, revoke and
\* create_invitation
InviterNext ==
    \/ \E u \in InviteUsers : SignUp(u)
    \/ \E u \in ShareOwners, d \in DocIds, public \in BOOLEAN : CreateDocument(u, d, public)
    \/ \E p \in Procs, a \in InviteUsers, d \in DocIds, t \in InviteUsers,
          r \in InviterGrantRoles : GrantAuth(p, a, d, t, r)
    \/ \E p \in Procs : GrantRead(p)
    \/ \E p \in Procs : GrantCommit(p)
    \/ \E p \in Procs, a \in InviteUsers, d \in DocIds, t \in InviteUsers :
          RevokeAuth(p, a, d, t)
    \/ \E p \in Procs : RevokeRead(p)
    \/ \E p \in Procs : RevokeCommit(p)
    \/ \E p \in Procs, a \in InviteUsers, d \in DocIds, u \in InviteUsers,
          r \in InviteRoles, m \in Messages : InviteCheck(p, a, d, Email(u), r, m)
    \/ \E p \in Procs : InviteRead(p)
    \/ \E p \in Procs : InviteCommit(p)

SpecInviter == Init /\ [][InviterNext]_vars

\* the user holds a permission row with the role EDITOR or OWNER on the
\* document
HoldsInviterRole(d, u) ==
    \E x \in PermissionRows(d, u) : x.role \in {EDITOR, OWNER}

\* C21: a create_invitation called by a user who holds no permission row
\* with the role EDITOR or OWNER on the document (a VIEWER, a user without a
\* row, a user who has only the public flag) ends at the router's check
\* with the 403 and changes no table; a call goes on to its SELECTs only if
\* the inviter holds such a row at the check; and the invitations table
\* changes only at the commit of a call that went on.
C21_InviterHoldsRole ==
    [][/\ \A p \in Procs : \A a \in InviteUsers : \A d \in DocIds :
            \A u \in InviteUsers : \A r \in InviteRoles : \A m \in Messages :
               (Idle(p) /\ InviteCheck(p, a, d, Email(u), r, m)) =>
                  IF HoldsInviterRole(d, a)
                  THEN TRUE
                  ELSE /\ pc'[p] = "idle"
                       /\ ret'[p].op = "invite"
                       /\ ret'[p].status = 403
                       /\ db' = db
       /\ invs' # invs => \E p \in Procs : pc[p] = "invite_commit" /\ pc'[p] = "idle"
      ]_vars

\* C21 witness: a worker holds the 403 of a create_invitation on a public
\* document whose owner still holds the role OWNER, while the only other
\* account holds the role VIEWER and no invitation has been written
C21_ViewerRefused ==
    \E p \in Procs : \E d \in DOMAIN docs :
        /\ IF ret[p].op = "invite" THEN ret[p].status = 403 ELSE FALSE
        /\ docs[d].is_public
        /\ HoldsInviterRole(d, docs[d].owner_id)
        /\ \E u \in DOMAIN users : \E x \in PermissionRows(d, u) : x.role = VIEWER
        /\ invs = << >>

\* the invitations that are stored and PENDING and whose invitee e-mail is
\* the e-mail of their inviter
SelfInvitations ==
    {i \in InvIds : /\ ~invs[i].deleted
                    /\ invs[i].status = PENDING
                    /\ invs[i].invited_by_id \in DOMAIN users
                    /\ invs[i].invitee_email = users[invs[i].invited_by_id].email}

\* C31: a create_invitation whose invitee e-mail belongs to a user who
\* holds a permission on the document, or is the inviter's own e-mail, is
\* refused at the router's checks with no write; a call goes on to its
\* SELECTs only for an e-mail that is neither; and no PENDING invitation
\* has its inviter's e-mail as its invitee e-mail.
C31_CollaboratorAndSelfRefused ==
    [][/\ \A p \in Procs : \A a \in InviteUsers : \A d \in DocIds :
            \A u \in InviteUsers : \A r \in InviteRoles : \A m \in Messages :
               (Idle(p) /\ InviteCheck(p, a, d, Email(u), r, m)) =>
                  IF \/ Email(u) = users[a].email
                     \/ \E t \in DOMAIN users : /\ users[t].email = Email(u)
                                                 /\ PermissionRows(d, t) # {}
                  THEN /\ pc'[p] = "idle"
                       /\ ret'[p].op = "invite"
                       /\ ret'[p].status \in {400, 403}
                       /\ db' = db
                  ELSE TRUE
       /\ SelfInvitations = {}
       /\ SelfInvitations' = {}
      ]_vars

\* C31 witness: a worker holds the 400 of a create_invitation that named a
\* collaborator, while the owner holds OWNER, the other account holds a
\* granted role and an invitation is PENDING
C31_CollaboratorRefused ==
    \E p \in Procs : \E d \in DOMAIN docs :
        /\ IF ret[p].op = "invite"
           THEN IF ret[p].status = 400 THEN ret[p].detail = "collaborator" ELSE FALSE
           ELSE FALSE
        /\ HoldsInviterRole(d, docs[d].owner_id)
        /\ \E u \in DOMAIN users \ {docs[d].owner_id} : PermissionRows(d, u) # {}
        /\ \E i \in InvIds : invs[i].status = PENDING

\* --------------------------------------------------------- refresh tokens

\* tokens is the refresh_tokens table keyed by token_hash (unique); the
\* plaintext token is never stored.

\* AuthService.hash_token
hash_token(token) == <<"sha256", token>>

\* create_refresh_token, as the OAuth callback calls it after
\* get_or_create_user: generate_refresh_token draws a token no row holds yet
create_refresh_token(u, token) ==
    /\ u \in DOMAIN users
    /\ hash_token(token) \notin DOMAIN tokens
    /\ tokens' = tokens @@ (hash_token(token) :>
                              [user_id |-> u, is_revoked |-> FALSE,
                               expires_at |-> now + REFRESH_TOKEN_EXPIRE_DAYS,
                               last_used_at |-> NullTime, revoked_at |-> NullTime])
    /\ UNCHANGED <<users, docs, perms, permSeq, invs, now, pc, req, loc, ret>>

\* a WHERE clause without the comparison of expires_at
TokenSelectsAnyAge(row) == ~row.is_revoked

\* the WHERE clause of verify_refresh_token past the hash, lines 270-271
TokenSelects(row) == ~row.is_revoked /\ row.expires_at > now

\* ---- POST /auth/refresh

\* verify_refresh_token, lines 266-275, and the router's 401
VerifyRead(p, token) ==
    /\ LET h == hash_token(token)
           r == [op |-> "verify", token |-> token] IN
       IF h \in DOMAIN tokens
       THEN IF TokenSelects(tokens[h])
            THEN StartGoto(p, r, "verify_commit",
                           [op |-> "verify", refresh_token |-> tokens[h]])
            ELSE StartFinish(p, [op |-> "verify", status |-> 401, token |-> token])
       ELSE StartFinish(p, [op |-> "verify", status |-> 401, token |-> token])
    /\ UNCHANGED <<db, now>>

\* an UPDATE that spends the token on its use
VerifySpendRow(stored, refresh_token) ==
    [stored EXCEPT !.last_used_at = Flush(@, refresh_token.last_used_at, now),
                   !.is_revoked = TRUE]

\* the row verify_refresh_token's UPDATE leaves
VerifyTouchRow(stored, refresh_token) ==
    [stored EXCEPT !.last_used_at = Flush(@, refresh_token.last_used_at, now)]

\* verify_refresh_token, lines 277-283: the touch of last_used_at commits
\* and the record read by the SELECT is returned; the router mints an
\* access token for its user_id
VerifyCommit(p) ==
    /\ pc[p] = "verify_commit"
    /\ LET h == hash_token(req[p].token)
           refresh_token == loc[p].refresh_token IN
       /\ tokens' = [tokens EXCEPT ![h] = VerifyTouchRow(@, refresh_token)]
       /\ Finish(p, [op |-> "verify", status |-> 200, token |-> req[p].token,
                     access_token_sub |-> refresh_token.user_id])
    /\ UNCHANGED <<users, docs, perms, permSeq, invs, now>>

\* ---- POST /auth/logout

\* revoke_refresh_token, lines 291-297
LogoutRead(p, actor, token) ==
    /\ CurrentUser(actor)
    /\ LET h == hash_token(token)
           r == [op |-> "logout", token |-> token] IN
       IF h \in DOMAIN tokens
       THEN StartGoto(p, r, "logout_commit",
                      [op |-> "logout", refresh_token |-> tokens[h]])
       ELSE StartFinish(p, [op |-> "logout", success |-> FALSE, token |-> token])
    /\ UNCHANGED <<db, now>>

\* an UPDATE of a revoked token that writes nothing
RevokeRowNothing(stored, refresh_token) == stored

\* the row the UPDATE of a revoked token leaves
RevokeRow(stored, refresh_token) ==
    [stored EXCEPT !.is_revoked = Flush(@, refresh_token.is_revoked, TRUE),
                   !.revoked_at = Flush(@, refresh_token.revoked_at, now)]

\* revoke_refresh_token, lines 299-303
LogoutCommit(p) ==
    /\ pc[p] = "logout_commit"
    /\ LET h == hash_token(req[p].token) IN
       /\ tokens' = [tokens EXCEPT ![h] = RevokeRow(@, loc[p].refresh_token)]
       /\ Finish(p, [op |-> "logout", success |-> TRUE, token |-> req[p].token])
    /\ UNCHANGED <<users, docs, perms, permSeq, invs, now>>

\* ---- POST /auth/logout/all

\* a WHERE clause without the comparison of user_id
RevokeAllSelectsAnyUser(row, user_id) == ~row.is_revoked

\* the WHERE clause of revoke_all_user_tokens, lines 313-316
RevokeAllSelects(row, user_id) == row.user_id = user_id /\ ~row.is_revoked

\* revoke_all_user_tokens, lines 313-318: the user's tokens not yet revoked
LogoutAllRead(p, actor) ==
    /\ CurrentUser(actor)
    /\ LET selected == {h \in DOMAIN tokens : RevokeAllSelects(tokens[h], actor)} IN
       StartGoto(p, [op |-> "logout_all", user_id |-> actor], "logout_all_commit",
                 [op |-> "logout_all",
                  tokens |-> [h \in selected |-> tokens[h]]])
    /\ UNCHANGED <<db, now>>

\* revoke_all_user_tokens, lines 320-327
LogoutAllCommit(p) ==
    /\ pc[p] = "logout_all_commit"
    /\ LET loaded == loc[p].tokens IN
       /\ tokens' = [h \in DOMAIN tokens |->
                       IF h \in DOMAIN loaded
                       THEN RevokeRow(tokens[h], loaded[h])
                       ELSE tokens[h]]
       /\ Finish(p, [op |-> "logout_all", user_id |-> req[p].user_id,
                     revoked |-> DOMAIN loaded])
    /\ UNCHANGED <<users, docs, perms, permSeq, invs, now>>

TokTick ==
    /\ now + REFRESH_TOKEN_EXPIRE_DAYS <= MaxTokTime
    /\ now' = now + REFRESH_TOKEN_EXPIRE_DAYS
    /\ UNCHANGED <<db, pc, req, loc, ret>>

\* the accounts that act in the specification of the refresh tokens
TokUsers == {"u1", "u2"}

TokNext ==
    \/ \E u \in TokUsers : SignUp(u)
    \/ \E u \in TokUsers, t \in Secrets : create_refresh_token(u, t)
    \/ \E p \in Procs, t \in Secrets : VerifyRead(p, t)
    \/ \E p \in Procs : VerifyCommit(p)
    \/ \E p \in Procs, a \in TokUsers, t \in Secrets : LogoutRead(p, a, t)
    \/ \E p \in Procs : LogoutCommit(p)
    \/ \E p \in Procs, a \in TokUsers : LogoutAllRead(p, a)
    \/ \E p \in Procs : LogoutAllCommit(p)
    \/ TokTick

SpecTok == Init /\ [][TokNext]_vars

\* the token is stored, not revoked and not expired
TokenValid(token) ==
    IF hash_token(token) \in DOMAIN tokens
    THEN /\ ~tokens[hash_token(token)].is_revoked
         /\ tokens[hash_token(token)].expires_at > now
    ELSE FALSE

\* C8: a verify that starts while the token is stored, not revoked and not
\* expired passes the SELECT with the record of the user the token was
\* issued for and returns it; a verify that starts in any other state
\* returns invalid (401); and validity never comes back: no step resets
\* is_revoked, moves expires_at, changes the user or removes the row, and
\* time does not run backwards.
C8_RoundTrip ==
    [][/\ \A p \in Procs : \A t \in Secrets :
            VerifyRead(p, t) =>
               IF TokenValid(t)
               THEN /\ pc'[p] = "verify_commit"
                    /\ loc'[p].refresh_token.user_id = tokens[hash_token(t)].user_id
               ELSE /\ pc'[p] = "idle"
                    /\ ret'[p].status = 401
       /\ \A p \in Procs :
            (pc[p] = "verify_commit" /\ pc'[p] # "verify_commit") =>
               /\ ret'[p].status = 200
               /\ ret'[p].access_token_sub = tokens[hash_token(req[p].token)].user_id
       /\ \A h \in DOMAIN tokens :
            /\ h \in DOMAIN tokens'
            /\ tokens'[h].user_id = tokens[h].user_id
            /\ tokens'[h].expires_at = tokens[h].expires_at
            /\ tokens[h].is_revoked => tokens'[h].is_revoked
       /\ now' >= now
      ]_vars

\* C8 witness: one worker holds the session a verify of a token returned for
\* its user, another the 401 of a later verify of the same token, which is
\* revoked
C8_ValidThenInvalid ==
    \E p \in Procs : \E q \in Procs \ {p} : \E t \in Secrets :
        /\ hash_token(t) \in DOMAIN tokens
        /\ ret[p].op = "verify" /\ ret[q].op = "verify"
        /\ IF ret[p].op = "verify" /\ ret[q].op = "verify"
           THEN /\ ret[p].token = t /\ ret[p].status = 200
                /\ ret[p].access_token_sub = tokens[hash_token(t)].user_id
                /\ ret[q].token = t /\ ret[q].status = 401
                /\ tokens[hash_token(t)].is_revoked
           ELSE FALSE

\* C9: no verify returns a valid session for a token that a committed
\* revoke_all_user_tokens has revoked.
C9_NoSessionAfterRevokeAll ==
    [][\A p \in Procs :
         (pc[p] = "verify_commit" /\ pc'[p] # "verify_commit" /\ ret'[p].status = 200) =>
            ~\E q \in Procs :
                IF ret[q].op = "logout_all"
                THEN hash_token(req[p].token) \in ret[q].revoked
                ELSE FALSE
      ]_vars

\* C22: the commit of a successful verify changes nothing but last_used_at
\* of the row of its token (the rows, their hashes, users, is_revoked,
\* revoked_at and expires_at stay, so a token that was valid before the
\* commit is valid after it), and the router returns the refresh token it
\* was called with; a verify that returns invalid (401) changes no table.
C22_VerifyOnlyTouches ==
    [][\A p \in Procs :
         /\ (pc[p] = "verify_commit" /\ pc'[p] = "idle") =>
               /\ ret'[p].status = 200
               /\ ret'[p].token = req[p].token
               /\ DOMAIN tokens' = DOMAIN tokens
               /\ \A h \in DOMAIN tokens :
                     /\ tokens'[h].user_id = tokens[h].user_id
                     /\ tokens'[h].is_revoked = tokens[h].is_revoked
                     /\ tokens'[h].revoked_at = tokens[h].revoked_at
                     /\ tokens'[h].expires_at = tokens[h].expires_at
                     /\ h # hash_token(req[p].token) =>
                           tokens'[h].last_used_at = tokens[h].last_used_at
               /\ <<users, docs, perms, permSeq, invs>>' = <<users, docs, perms, permSeq, invs>>
               /\ \A t \in Secrets : TokenValid(t) => TokenValid(t)'
         /\ \A t \in Secrets :
               (Idle(p) /\ ~TokenValid(t) /\ VerifyRead(p, t)) =>
                  /\ ret'[p].status = 401
                  /\ db' = db
      ]_vars

\* C22 witness: both workers hold the session of a verify of the same
\* token, which has been used and is still neither revoked nor expired
C22_VerifiedTwice ==
    \E p \in Procs : \E q \in Procs \ {p} : \E t \in Secrets :
        /\ TokenValid(t)
        /\ IF ret[p].op = "verify" /\ ret[q].op = "verify"
           THEN /\ ret[p].token = t /\ ret[p].status = 200
                /\ ret[q].token = t /\ ret[q].status = 200
                /\ tokens[hash_token(t)].last_used_at # NullTime
           ELSE FALSE

\* the stored tokens of the user that are not revoked
Unrevoked(u) ==
    {h \in DOMAIN tokens : tokens[h].user_id = u /\ ~tokens[h].is_revoked}

\* C33: revoke_all_user_tokens selects exactly the tokens of its user that
\* are not revoked, without a write; its commit marks each of them revoked,
\* reports them (their number is the count returned), and leaves every
\* other token, the tokens of every other user among them, as it is; none
\* of the user's tokens it found is unrevoked afterwards, and a call that
\* finds none changes nothing and reports 0.
C33_RevokeAllFrame ==
    [][\A p \in Procs :
         /\ \A a \in TokUsers :
               (Idle(p) /\ a \in DOMAIN users /\ LogoutAllRead(p, a)) =>
                  /\ DOMAIN loc'[p].tokens = Unrevoked(a)
                  /\ db' = db
         /\ \A a \in TokUsers :
               (pc[p] = "logout_all_commit" /\ pc'[p] = "idle" /\ req[p].user_id = a) =>
                  LET selected == DOMAIN loc[p].tokens IN
                  /\ ret'[p].revoked = selected
                  /\ DOMAIN tokens' = DOMAIN tokens
                  /\ \A h \in selected : tokens'[h].is_revoked
                  /\ \A h \in DOMAIN tokens \ selected : tokens'[h] = tokens[h]
                  /\ \A h \in DOMAIN tokens :
                        /\ tokens'[h].user_id = tokens[h].user_id
                        /\ tokens'[h].expires_at = tokens[h].expires_at
                        /\ tokens'[h].last_used_at = tokens[h].last_used_at
                        /\ tokens[h].user_id # a => tokens'[h] = tokens[h]
                  /\ Unrevoked(a)' = Unrevoked(a) \ selected
                  /\ selected = {} => (tokens' = tokens /\ Cardinality(ret'[p].revoked) = 0)
      ]_vars

\* C33 witness: one worker holds the report of a revoke_all_user_tokens
\* that revoked a token of its user, the other the report of one for the
\* same user that found nothing, and a token of another user is stored
\* unrevoked
C33_RevokedThenNothing ==
    \E p \in Procs : \E q \in Procs \ {p} :
        IF ret[p].op = "logout_all" /\ ret[q].op = "logout_all"
        THEN /\ ret[p].user_id = ret[q].user_id
             /\ ret[p].revoked # {}
             /\ ret[q].revoked = {}
             /\ \A h \in ret[p].revoked : tokens[h].is_revoked
             /\ \E h \in DOMAIN tokens : /\ tokens[h].user_id # ret[p].user_id
                                          /\ ~tokens[h].is_revoked
        ELSE FALSE

\* C34: of two revoke_all_user_tokens calls, each token is counted as
\* revoked by at most one: the tokens two workers report as revoked have
\* nothing in common; and no step resets is_revoked.
C34_CountedOnce ==
    [][/\ \A p \in Procs : \A q \in Procs \ {p} :
            IF ret'[p].op = "logout_all" /\ ret'[q].op = "logout_all"
            THEN ret'[p].revoked \cap ret'[q].revoked = {}
            ELSE TRUE
       /\ \A h \in DOMAIN tokens : tokens[h].is_revoked => tokens'[h].is_revoked
      ]_vars

\* C35: revoke_refresh_token on a token whose hash is stored returns True
\* and its commit leaves that token revoked, whether or not it was revoked
\* before, and every other token as it is; on a token whose hash is not
\* stored it returns False without a write.
C35_RevokeExactlyOne ==
    [][\A p \in Procs : \A t \in Secrets :
         /\ \A a \in TokUsers :
               (Idle(p) /\ a \in DOMAIN users /\ LogoutRead(p, a, t)) =>
                  /\ db' = db
                  /\ IF hash_token(t) \in DOMAIN tokens
                     THEN pc'[p] = "logout_commit"
                     ELSE pc'[p] = "idle" /\ ret'[p].success = FALSE
         /\ (pc[p] = "logout_commit" /\ pc'[p] = "idle" /\ req[p].token = t) =>
               /\ ret'[p].success = TRUE
               /\ DOMAIN tokens' = DOMAIN tokens
               /\ tokens'[hash_token(t)].is_revoked
               /\ tokens'[hash_token(t)].user_id = tokens[hash_token(t)].user_id
               /\ tokens'[hash_token(t)].expires_at = tokens[hash_token(t)].expires_at
               /\ \A h \in DOMAIN tokens \ {hash_token(t)} : tokens'[h] = tokens[h]
               /\ <<users, docs, perms, permSeq, invs>>' = <<users, docs, perms, permSeq, invs>>
      ]_vars

\* C35 witness: both workers hold True for the revoke of the same token,
\* which is revoked, beside another token that is not
C35_RevokedTwice ==
    \E p \in Procs : \E q \in Procs \ {p} : \E t \in Secrets :
        IF ret[p].op = "logout" /\ ret[q].op = "logout"
        THEN /\ ret[p].token = t /\ ret[p].success
             /\ ret[q].token = t /\ ret[q].success
             /\ hash_token(t) \in DOMAIN tokens
             /\ tokens[hash_token(t)].is_revoked
             /\ \E h \in DOMAIN tokens : ~tokens[h].is_revoked
        ELSE FALSE

\* ---------------------------------------------------------- access tokens

\* settings.JWT_EXPIRATION_MINUTES; in this section now counts minutes
JWT_EXPIRATION_MINUTES == 30

\* the last minute of the specification of the access tokens
MaxJwtTime == 60

\* settings.JWT_SECRET_KEY, and a key that is not the server's
JWT_SECRET_KEY == "JWT_SECRET_KEY"
JwtKeys == {JWT_SECRET_KEY, "forged"}

\* the values of the claim "type": create_access_token writes "access"
JwtTypes == {"access", "refresh"}

\* the subjects of the tokens presented; u2 may have no account
JwtUsers == {"u1", "u2"}

\* jose.jwt.encode with HS256: the payload and the MAC of the payload
\* under the key
jwt_encode(payload, key) ==
    [payload |-> payload, signature |-> <<"HS256", key, payload>>]

\* jose.jwt.decode with algorithms = [HS256]: the signature is checked
\* first, then the claim exp against the clock; both failures are JWTErrors
jwt_decode(token, key) ==
    IF token.signature # <<"HS256", key, token.payload>>
    THEN [ok |-> FALSE, error |-> "JWTError"]
    ELSE IF token.payload.exp < now
    THEN [ok |-> FALSE, error |-> "ExpiredSignatureError"]
    ELSE [ok |-> TRUE, payload |-> token.payload]

\* AuthService.create_access_token
create_access_token(user_id) ==
    jwt_encode([sub |-> user_id, exp |-> now + JWT_EXPIRATION_MINUTES,
                type |-> "access"], JWT_SECRET_KEY)

\* a decode that hands the library's error to the caller
decode_access_token_reason(token) ==
    LET decoded == jwt_decode(token, JWT_SECRET_KEY) IN
    IF ~decoded.ok
    THEN [found |-> FALSE, error |-> decoded.error]
    ELSE IF decoded.payload.type # "access"
    THEN [found |-> FALSE, error |-> "type"]
    ELSE [found |-> TRUE, payload |-> decoded.payload]

\* AuthService.decode_access_token: None is [found |-> FALSE]
decode_access_token(token) ==
    LET decoded == jwt_decode(token, JWT_SECRET_KEY) IN
    IF ~decoded.ok
    THEN [found |-> FALSE]
    ELSE IF decoded.payload.type # "access"
    THEN [found |-> FALSE]
    ELSE [found |-> TRUE, payload |-> decoded.payload]

\* the payloads of the tokens presented
JwtPayloads ==
    [sub : JwtUsers,
     exp : {JWT_EXPIRATION_MINUTES, JWT_EXPIRATION_MINUTES + JWT_EXPIRATION_MINUTES},
     type : JwtTypes]

\* a token of the server with its expiry moved and its signature kept
JwtExtended(payload) ==
    [payload |-> [payload EXCEPT !.exp = @ + JWT_EXPIRATION_MINUTES],
     signature |-> jwt_encode(payload, JWT_SECRET_KEY).signature]

\* the bearer tokens presented: every payload signed with either key, and
\* the extended tokens
Jwts ==
    {jwt_encode(payload, key) : payload \in JwtPayloads, key \in JwtKeys}
    \cup {JwtExtended(payload) : payload \in JwtPayloads}

\* AuthService.get_user_by_id: the account with the id that is active
GetUserById(user_id) ==
    IF user_id \in DOMAIN users
    THEN IF users[user_id].is_active
         THEN [found |-> TRUE, row |-> users[user_id]]
         ELSE [found |-> FALSE]
    ELSE [found |-> FALSE]

\* get_current_user called with a bearer token
GetCurrentUser(p, token) ==
    /\ LET payload == decode_access_token(token) IN
       IF ~payload.found
       THEN StartFinish(p, [op |-> "auth", status |-> 401, token |-> token,
                            detail |-> [found |-> FALSE]])
       ELSE IF ~GetUserById(payload.payload.sub).found
       THEN StartFinish(p, [op |-> "auth", status |-> 401, token |-> token,
                            detail |-> [found |-> TRUE, user |-> "None"]])
       ELSE StartFinish(p, [op |-> "auth", status |-> 200, token |-> token,
                            detail |-> [found |-> TRUE, user |-> payload.payload.sub]])
    /\ UNCHANGED <<db, now>>

\* the login: the callback hands an access token of the user to the client,
\* which presents it
Login(p, u) ==
    /\ u \in DOMAIN users
    /\ GetCurrentUser(p, create_access_token(u))

JwtTick ==
    /\ now + JWT_EXPIRATION_MINUTES <= MaxJwtTime
    /\ now' = now + JWT_EXPIRATION_MINUTES
    /\ UNCHANGED <<db, pc, req, loc, ret>>

JwtNext ==
    \/ \E u \in WriteUsers : SignUp(u)
    \/ \E p \in Procs, u \in WriteUsers : Login(p, u)
    \/ \E p \in Procs, token \in Jwts : GetCurrentUser(p, token)
    \/ JwtTick

SpecJwt == Init /\ [][JwtNext]_vars

\* the token carries the server's signature of its payload
JwtSigned(token) == token.signature = <<"HS256", JWT_SECRET_KEY, token.payload>>

\* C23: decode_access_token returns None, one and the same value, for a
\* token with a bad signature, for a token whose expiry is in the past and
\* for a correctly signed unexpired token whose type is not "access", and
\* get_current_user answers the three with one and the same 401; for a
\* correctly signed unexpired access token decode_access_token returns the
\* payload.
C23_DecodeUniform ==
    [][\A p \in Procs : \A token \in Jwts :
         (Idle(p) /\ GetCurrentUser(p, token)) =>
            IF JwtSigned(token) /\ token.payload.exp >= now /\ token.payload.type = "access"
            THEN /\ decode_access_token(token) = [found |-> TRUE, payload |-> token.payload]
                 /\ ret'[p].detail.found
            ELSE /\ decode_access_token(token) = [found |-> FALSE]
                 /\ ret'[p] = [op |-> "auth", status |-> 401, token |-> token,
                               detail |-> [found |-> FALSE]]
      ]_vars

\* C23 witness: one worker holds the 401 of a correctly signed access token
\* that has expired, the other the 401 of a correctly signed token that has
\* not expired and is of another type, and the two results differ in
\* nothing but the token presented
C23_ExpiredAndWrongType ==
    \E p \in Procs : \E q \in Procs \ {p} :
        IF ret[p].op = "auth" /\ ret[q].op = "auth"
        THEN /\ JwtSigned(ret[p].token) /\ JwtSigned(ret[q].token)
             /\ ret[p].token.payload.type = "access"
             /\ ret[p].token.payload.exp < now
             /\ ret[q].token.payload.type # "access"
             /\ ret[q].token.payload.exp >= now
             /\ ret[p].status = 401 /\ ret[q].status = 401
             /\ ret[p].detail = ret[q].detail
        ELSE FALSE

\* ---------------------------------------------------- account deactivation

\* ---- DELETE /users/me

\* deactivate_my_account up to the SELECT of revoke_all_user_tokens:
\* get_current_user has found the active account, is_active = False is
\* assigned to the session's copy and flushed before the SELECT (the UPDATE
\* holds the lock of the users row until the commit, so a second
\* deactivation of the same account waits here), and the SELECT loads the
\* account's tokens not yet revoked
DeactivateRead(p, actor) ==
    /\ CurrentUser(actor)
    /\ \A q \in Procs : pc[q] = "deactivate_commit" => req[q].user_id # actor
    /\ LET selected == {h \in DOMAIN tokens : RevokeAllSelects(tokens[h], actor)} IN
       StartGoto(p, [op |-> "deactivate", user_id |-> actor], "deactivate_commit",
                 [op |-> "deactivate", current_user |-> users[actor],
                  tokens |-> [h \in selected |-> tokens[h]]])
    /\ UNCHANGED <<db, now>>

\* the commit of revoke_all_user_tokens (line 325) writes is_active and the
\* loaded tokens in one transaction; the router's own commit finds nothing
\* left to write
DeactivateCommit(p) ==
    /\ pc[p] = "deactivate_commit"
    /\ LET loaded == loc[p].tokens
           u == req[p].user_id IN
       /\ users' = [users EXCEPT ![u].is_active =
                        Flush(@, loc[p].current_user.is_active, FALSE)]
       /\ tokens' = [h \in DOMAIN tokens |->
                       IF h \in DOMAIN loaded
                       THEN RevokeRow(tokens[h], loaded[h])
                       ELSE tokens[h]]
       /\ Finish(p, [op |-> "deactivate", success |-> TRUE, user_id |-> u,
                     revoked |-> DOMAIN loaded])
    /\ UNCHANGED <<docs, perms, permSeq, invs, now>>

DeactivateNext ==
    \/ \E u \in TokUsers : SignUp(u)
    \/ \E u \in TokUsers, t \in Secrets : create_refresh_token(u, t)
    \/ \E p \in Procs, u \in TokUsers : Login(p, u)
    \/ \E p \in Procs, t \in Secrets : VerifyRead(p, t)
    \/ \E p \in Procs : VerifyCommit(p)
    \/ \E p \in Procs, a \in TokUsers : DeactivateRead(p, a)
    \/ \E p \in Procs : DeactivateCommit(p)

SpecDeactivate == Init /\ [][DeactivateNext]_vars

\* C40: the commit of a deactivation of the account U leaves is_active
\* false and every refresh token that U holds at that moment revoked;
\* is_active never becomes true again, and from then on get_current_user
\* answers every bearer token of U with a 401, also one that is correctly
\* signed, unexpired and of type "access".
C40_DeactivatedLocksOut ==
    [][\A p \in Procs : \A u \in TokUsers :
         /\ (/\ pc[p] = "deactivate_commit"
             /\ pc'[p] = "idle"
             /\ req[p].user_id = u) =>
                /\ ~users'[u].is_active
                /\ \A h \in DOMAIN tokens' :
                      tokens'[h].user_id = u => tokens'[h].is_revoked
         /\ (u \in DOMAIN users) =>
                (~users[u].is_active => ~users'[u].is_active)
         /\ (/\ Idle(p)
             /\ u \in DOMAIN users
             /\ Login(p, u)) =>
                (~users[u].is_active => ret'[p].status = 401)
      ]_vars

====
